---------------------------- MODULE Spec2Model ----------------------------
(***************************************************************************)
(* A model of the content-analysis pipeline of the bookmark manager        *)
(* (package srv): analyzeURL, generateSummary and extractKeywords, with    *)
(* the string helpers they rest on.                                        *)
(*                                                                         *)
(* Go strings are modelled as TLA+ strings, one position per rune.  The    *)
(* runes outside ASCII that the code or the inputs use are written with    *)
(* ASCII stand-ins; RuneLen gives each its UTF-8 width, which Go's len     *)
(* counts:                                                                 *)
(*     "~"  U+0663 ARABIC-INDIC DIGIT THREE (a number, 2 bytes)            *)
(*     "^"  U+00F9 LATIN SMALL LETTER U WITH GRAVE (a letter, 2 bytes)     *)
(*     "|"  U+2014 EM DASH (3 bytes)       "*"  U+2013 EN DASH (3 bytes)   *)
(*     "@"  U+00A9 COPYRIGHT SIGN (2)      "$"  U+00AE REGISTERED SIGN (2) *)
(*     "%"  U+2122 TRADE MARK SIGN (3 bytes)                               *)
(*     "?"  U+00D9 LATIN CAPITAL LETTER U WITH GRAVE (a letter, 2 bytes)   *)
(*     "!"  the bytes of a rune that a byte slice s[:n] cut in two         *)
(* No stand-in occurs in the model's inputs with its ASCII meaning.        *)
(***************************************************************************)
EXTENDS Integers, Sequences, FiniteSets, TLC

VARIABLES
    text,        \* extractKeywords: the argument
    typed,       \* number of chunks the environment appended to text
    runs,        \* number of extractKeywords calls made on this text
    words,       \* extractKeywords: the tokens of the last call (local `words`)
    wordCounts,  \* extractKeywords: the map wordCounts of the last call
    keywords,    \* the value returned by the last call
    prevKeywords, \* the value returned by the call before it (same text)
    html,        \* generateSummary / analyzeURL: the document
    url,         \* generateSummary / analyzeURL: the argument url
    summary,     \* the value generateSummary returned
    pc,          \* where the call of generateSummary or analyzeURL stands
    req,         \* analyzeURL: the request http.NewRequest returned
    resp,        \* analyzeURL: the response client.Do returned
    result,      \* analyzeURL: the pair (*ContentAnalysis, error) it returned
    err,         \* analyzeURL: the error client.Do returned ("" for nil)
    requests,    \* analyzeURL: number of times client.Do was called
    decoded,     \* decodeHTMLEntities: the value returned for text
    redecoded,   \* decodeHTMLEntities: the value returned for decoded
    metaName,    \* extractMetaContent: the argument name
    metaContent, \* extractMetaContent: the value returned for html and name
    calls,       \* concurrent analyzeURL calls: the locals of each call
    globals,     \* the package-level variables of package srv
    locals,      \* generateSummary: its local variables when it returned
    paragraph,   \* extractFirstParagraph: the value returned for html
    store,       \* the table bookmarks: the row of each id that exists
    handler      \* HandleAnalyzeBookmark: the locals of the call and its reply

kwVars == <<text, typed, runs, words, wordCounts, keywords, prevKeywords>>

sumVars == <<html, url, summary, pc>>

reqVars == <<req, resp, result, err, requests>>

decVars == <<decoded, redecoded>>

metaVars == <<metaName, metaContent>>

concVars == <<calls, globals>>

localVars == <<locals, paragraph>>

refreshVars == <<store, handler>>

vars == <<kwVars, sumVars, reqVars, decVars, metaVars, concVars, localVars, refreshVars>>

-----------------------------------------------------------------------------
(* Bounds of the model *)

\* chunks the environment appends to the text handed to extractKeywords
MaxChunks == 3
\* calls of extractKeywords on one text
MaxRuns == 2
\* fragments the environment puts into the document handed to generateSummary
MaxFragments == 2
\* calls of analyzeURL that run at the same time
MaxCalls == 2

-----------------------------------------------------------------------------
(* Runes and strings *)

LowerAlpha == "abcdefghijklmnopqrstuvwxyz"
UpperAlpha == "ABCDEFGHIJKLMNOPQRSTUVWXYZ"
DigitChars == "0123456789"

CharsOf(s) == {SubSeq(s, i, i) : i \in 1..Len(s)}

WideDigit == "~"
WideLetter == "^"
WideLetterUpper == "?"
BrokenRune == "!"
EmDash == "|"
EnDash == "*"
CopyrightSign == "@"
RegisteredSign == "$"
TradeMarkSign == "%"
TwoByteRunes == {WideDigit, WideLetter, WideLetterUpper, CopyrightSign, RegisteredSign}
ThreeByteRunes == {EmDash, EnDash, TradeMarkSign}

UpperRunes == CharsOf(UpperAlpha)
LetterRunes == CharsOf(LowerAlpha) \cup UpperRunes \cup {WideLetter, WideLetterUpper}
NumberRunes == CharsOf(DigitChars) \cup {WideDigit}

\* unicode.IsLetter
IsLetter(c) == c \in LetterRunes

\* unicode.IsNumber
IsNumber(c) == c \in NumberRunes

\* unicode.IsSpace, on the runes of the model
IsSpace(c) == c \in {" ", "\t", "\n", "\r"}

\* utf8.RuneLen
RuneLen(c) == IF c \in TwoByteRunes THEN 2 ELSE IF c \in ThreeByteRunes THEN 3 ELSE 1

\* Go's len(s): the number of bytes of the UTF-8 encoding
GoLen(s) ==
    Len(s) + Cardinality({i \in 1..Len(s) : RuneLen(SubSeq(s, i, i)) = 2})
           + 2 * Cardinality({i \in 1..Len(s) : RuneLen(SubSeq(s, i, i)) = 3})

\* unicode.ToLower
ToLowerRune(c) ==
    IF c \in UpperRunes
    THEN LET i == CHOOSE k \in 1..Len(UpperAlpha) : SubSeq(UpperAlpha, k, k) = c
         IN  SubSeq(LowerAlpha, i, i)
    ELSE IF c = WideLetterUpper THEN WideLetter
    ELSE c

\* unicode.ToTitle
ToTitleRune(c) ==
    IF c \in CharsOf(LowerAlpha)
    THEN LET i == CHOOSE k \in 1..Len(LowerAlpha) : SubSeq(LowerAlpha, k, k) = c
         IN  SubSeq(UpperAlpha, i, i)
    ELSE IF c = WideLetter THEN WideLetterUpper
    ELSE c

\* the runes unicode.ToLower changes
CasedUpper == UpperRunes \cup {WideLetterUpper}

RECURSIVE ToLowerRange(_, _, _, _)
\* the runes lo..hi of s in lower case; ups holds the positions to change
ToLowerRange(s, ups, lo, hi) ==
    IF lo > hi THEN ""
    ELSE IF \A i \in ups : i < lo \/ i > hi THEN SubSeq(s, lo, hi)
    ELSE IF lo = hi THEN ToLowerRune(SubSeq(s, lo, lo))
    ELSE LET mid == (lo + hi) \div 2
         IN  ToLowerRange(s, ups, lo, mid) \o ToLowerRange(s, ups, mid + 1, hi)

\* strings.ToLower: every rune mapped by unicode.ToLower
ToLower(s) ==
    ToLowerRange(s, {i \in 1..Len(s) : SubSeq(s, i, i) \in CasedUpper}, 1, Len(s))

\* strings.Contains
Contains(s, sub) == \E i \in 1..(Len(s) - Len(sub) + 1) : SubSeq(s, i, i + Len(sub) - 1) = sub

\* strings.TrimSpace
TrimSpace(s) ==
    IF \A i \in 1..Len(s) : IsSpace(SubSeq(s, i, i)) THEN ""
    ELSE SubSeq(s,
                CHOOSE i \in 1..Len(s) :
                    ~IsSpace(SubSeq(s, i, i)) /\ \A j \in 1..(i - 1) : IsSpace(SubSeq(s, j, j)),
                CHOOSE i \in 1..Len(s) :
                    ~IsSpace(SubSeq(s, i, i)) /\ \A j \in (i + 1)..Len(s) : IsSpace(SubSeq(s, j, j)))


\* the rune at position k of s ("" outside the string)
At(s, k) == IF k >= 1 /\ k <= Len(s) THEN SubSeq(s, k, k) ELSE ""

\* s[a..b] ("" when the range is empty or leaves the string)
Sub(s, a, b) == IF a >= 1 /\ b <= Len(s) /\ a <= b THEN SubSeq(s, a, b) ELSE ""

\* the literal lit (not empty) occurs in s at position k
HasAt(s, k, lit) == Sub(s, k, k + Len(lit) - 1) = lit

Min(S) == CHOOSE x \in S : \A y \in S : x <= y
Max(S) == CHOOSE x \in S : \A y \in S : x >= y

RECURSIVE SelectMatches(_, _, _)
\* the matches a ReplaceAll / FindAll scan selects from position `from` on:
\* leftmost first, the next search starting after the match.  ends[k] is
\* the last position of the match that starts at k, 0 when none starts there
SelectMatches(ends, n, from) ==
    LET Taking(k) == {k} \cup SelectMatches(ends, n, ends[k] + 1)
    IN  IF \A k \in from..n : ends[k] = 0 THEN {}
        ELSE Taking(CHOOSE k \in from..n : ends[k] > 0 /\ \A j \in from..(k - 1) : ends[j] = 0)

RECURSIVE SpliceRange(_, _, _, _, _, _)
SpliceRange(s, sel, covered, new, lo, hi) ==
    IF lo > hi THEN ""
    ELSE IF lo = hi
         THEN (IF lo \in sel THEN new ELSE IF lo \in covered THEN "" ELSE SubSeq(s, lo, lo))
    ELSE LET mid == (lo + hi) \div 2
         IN  SpliceRange(s, sel, covered, new, lo, mid) \o SpliceRange(s, sel, covered, new, mid + 1, hi)

\* s with every selected match replaced by new (regexp.ReplaceAllString with a
\* replacement that has no $, strings.ReplaceAll)
ReplaceSpans(s, ends, new) ==
    LET Splice(sel) ==
            IF sel = {} THEN s
            ELSE SpliceRange(s, sel, UNION {k..ends[k] : k \in sel}, new, 1, Len(s))
    IN  Splice(SelectMatches(ends, Len(s), 1))

\* strings.ReplaceAll(s, old, new), old not empty
ReplaceAll(s, old, new) ==
    ReplaceSpans(s, [k \in 1..Len(s) |-> IF HasAt(s, k, old) THEN k + Len(old) - 1 ELSE 0], new)

\* the byte offset at which the rune at position k of s starts (0-based)
ByteOffset(s, k) == GoLen(Sub(s, 1, k - 1))

\* s[:n] for n <= len(s): the runes that end within the first n bytes, and
\* BrokenRune when byte n falls inside a rune
BytePrefix(s, n) ==
    LET Cut(whole) ==
            IF ByteOffset(s, whole + 1) = n THEN Sub(s, 1, whole)
            ELSE Sub(s, 1, whole) \o BrokenRune
    IN  Cut(Max({k \in 0..Len(s) : ByteOffset(s, k + 1) <= n}))

RECURSIVE Join(_, _)
\* strings.Join(parts, sep)
Join(parts, sep) ==
    IF Len(parts) = 0 THEN ""
    ELSE IF Len(parts) = 1 THEN parts[1]
    ELSE parts[1] \o sep \o Join(Tail(parts), sep)

\* the separators of strings.Title: not a letter, a digit or an underscore
IsTitleSeparator(c) == ~(IsLetter(c) \/ IsNumber(c) \/ c = "_")

RECURSIVE TitleRange(_, _, _)
TitleRange(s, lo, hi) ==
    IF lo > hi THEN ""
    ELSE IF lo = hi
         THEN (IF lo = 1 \/ IsTitleSeparator(SubSeq(s, lo - 1, lo - 1))
               THEN ToTitleRune(SubSeq(s, lo, lo)) ELSE SubSeq(s, lo, lo))
    ELSE LET mid == (lo + hi) \div 2
         IN  TitleRange(s, lo, mid) \o TitleRange(s, mid + 1, hi)

\* strings.Title: the rune that begins a word is mapped to title case
Title(s) == TitleRange(s, 1, Len(s))

-----------------------------------------------------------------------------
(* extractKeywords *)

stopWords == {
    "the", "a", "an", "and", "or", "but",
    "in", "on", "at", "to", "for", "of",
    "with", "by", "from", "as", "is", "was",
    "are", "were", "been", "be", "have", "has",
    "had", "do", "does", "did", "will", "would",
    "could", "should", "may", "might", "must",
    "shall", "can", "need", "dare", "ought",
    "used", "this", "that", "these", "those",
    "i", "you", "he", "she", "it", "we", "they",
    "what", "which", "who", "whom", "whose",
    "where", "when", "why", "how", "all", "each",
    "every", "both", "few", "more", "most", "other",
    "some", "such", "no", "nor", "not", "only",
    "own", "same", "so", "than", "too", "very",
    "just", "also", "now", "here", "there", "then",
    "once", "about", "into", "through", "during",
    "before", "after", "above", "below", "between",
    "under", "again", "further", "if", "because",
    "until", "while", "your", "our", "their", "my",
    "its", "his", "her", "up", "down", "out",
    "off", "over", "any", "get", "got", "like",
    "make", "made", "new", "one", "two", "first",
    "even", "way", "well", "back", "being", "want",
    "use", "using", "click", "page", "website",
    "http", "https", "www", "com", "org", "net",
    "function", "window", "var", "const", "let",
    "return", "true", "false", "null", "undefined" }

codeWords == {"script", "style", "div", "span", "class", "href", "src", "img", "onclick", "onload"}

MaxKeywords_Mutant == 15 + 1

\* `if i >= 15 { break }`
MaxKeywords == 15

\* the guard without its second test
LooksLikeCode_Mutant(t) == Contains(t, "function")

\* the script-leak guard: `strings.Contains(text, "function") || strings.Contains(text, "window.")`
LooksLikeCode(t) == Contains(t, "function") \/ Contains(t, "window.")

\* the separator function handed to strings.FieldsFunc
IsSeparator(c) == ~IsLetter(c) /\ ~IsNumber(c)

\* a field of s starts at i: a non-separator at the start or after a separator
FieldStart(s, i) ==
    /\ ~IsSeparator(SubSeq(s, i, i))
    /\ (i = 1 \/ IsSeparator(SubSeq(s, i - 1, i - 1)))

\* a field of s ends at j: a non-separator at the end or before a separator
FieldEnd(s, j) ==
    /\ ~IsSeparator(SubSeq(s, j, j))
    /\ (j = Len(s) \/ IsSeparator(SubSeq(s, j + 1, j + 1)))

\* the field of s that starts at i
FieldAt(s, i) ==
    LET j == CHOOSE e \in i..Len(s) : FieldEnd(s, e) /\ \A k \in i..(e - 1) : ~FieldEnd(s, k)
    IN  SubSeq(s, i, j)

RECURSIVE FieldsIn(_, _, _)
\* the fields of s that start at a position of lo..hi, in order
FieldsIn(s, lo, hi) ==
    IF lo > hi THEN <<>>
    ELSE IF lo = hi THEN (IF FieldStart(s, lo) THEN <<FieldAt(s, lo)>> ELSE <<>>)
    ELSE LET mid == (lo + hi) \div 2
         IN  FieldsIn(s, lo, mid) \o FieldsIn(s, mid + 1, hi)

\* strings.FieldsFunc(s, IsSeparator): the maximal runs of non-separator runes, in order
FieldsFunc(s) == FieldsIn(s, 1, Len(s))

LengthOK_Mutant(word) == ~(GoLen(word) < 3 \/ GoLen(word) > 30)

\* `if len(word) < 3 || len(word) > 25 { continue }`
LengthOK(word) == ~(GoLen(word) < 3 \/ GoLen(word) > 25)

\* numCount: the runes of word that are numbers
NumCount(word) == Cardinality({i \in 1..Len(word) : IsNumber(SubSeq(word, i, i))})

\* `if numCount > len(word)/2 { continue }`
MostlyNumbers(word) == NumCount(word) > GoLen(word) \div 2

\* the body of the loop over words: TRUE when the word reaches wordCounts[word]++
Counted(w) ==
    LET word == TrimSpace(w)
    IN  /\ LengthOK(word)
        /\ word \notin stopWords
        /\ ~MostlyNumbers(word)
        /\ word \notin codeWords

\* the loop body and the map wordCounts when the package-level stopWords holds
\* `table` at the time of the call
CountedIn(table, w) ==
    LET Kept(word) ==
            /\ LengthOK(word)
            /\ word \notin table
            /\ ~MostlyNumbers(word)
            /\ word \notin codeWords
    IN  Kept(TrimSpace(w))

CountWordsIn(table, ws) ==
    LET Tally(kept) ==
            [k \in {TrimSpace(ws[i]) : i \in kept} |->
                Cardinality({i \in kept : TrimSpace(ws[i]) = k})]
    IN  Tally({i \in 1..Len(ws) : CountedIn(table, ws[i])})

\* the map wordCounts after the loop over words
CountWords(ws) ==
    LET word == [i \in 1..Len(ws) |-> TrimSpace(ws[i])]
        kept == {i \in 1..Len(ws) : Counted(ws[i])}
        keys == {word[i] : i \in kept}
    IN  [k \in keys |-> Cardinality({i \in kept : word[i] = k})]

KeepCount_Mutant(count) == count >= 1

\* `if count >= 2`
KeepCount(count) == count >= 2

Less_Mutant(a, b) == a.count < b.count

\* the less function handed to sort.Slice: freqs[i].count > freqs[j].count
Less(a, b) == a.count > b.count

\* the wordFreq values appended to freqs (the range over the map visits them in any order)
FreqSet(wc) == {[word |-> k, count |-> wc[k]] : k \in {x \in DOMAIN wc : KeepCount(wc[x])}}

RECURSIVE SortSlice(_)
\* freqs after the range over the map and sort.Slice: the map is visited in an
\* unspecified order and sort.Slice is not stable, so every arrangement of the
\* entries in which no later entry is less than an earlier one can result
SortSlice(S) ==
    IF S = {} THEN {<<>>}
    ELSE LET firsts == {e \in S : \A r \in S : ~Less(r, e)}
         IN  UNION {{<<e>> \o rest : rest \in SortSlice(S \ {e})} : e \in firsts}

\* the loop that copies the words of freqs[0:15] into keywords
TakeKeywords(freqs) ==
    [i \in 1..(IF Len(freqs) < MaxKeywords THEN Len(freqs) ELSE MaxKeywords) |-> freqs[i].word]

\* A []string value: nil (`var keywords []string` never appended to) or a list
NilSlice == [nil |-> TRUE, elems |-> <<>>]
Slice(s) == [nil |-> FALSE, elems |-> s]

\* `var keywords []string` plus the appends: nil when nothing was appended
KeywordsValue(freqs) == IF Len(freqs) = 0 THEN NilSlice ELSE Slice(TakeKeywords(freqs))

\* the values extractKeywords(t) can return
extractKeywords(t) ==
    IF LooksLikeCode(t) THEN {Slice(<<>>)}
    ELSE {KeywordsValue(freqs) : freqs \in SortSlice(FreqSet(CountWords(FieldsFunc(ToLower(t)))))}

\* the values extractKeywords(t) can return when the package-level stopWords
\* holds `table` at the time of the call
extractKeywordsIn(table, t) ==
    IF LooksLikeCode(t) THEN {Slice(<<>>)}
    ELSE {KeywordsValue(freqs) :
            freqs \in SortSlice(FreqSet(CountWordsIn(table, FieldsFunc(ToLower(t)))))}

-----------------------------------------------------------------------------
(* decodeHTMLEntities *)

\* the map with the ";" of one key left out
replacements_Mutant == <<
    <<"&nbsp;", " ">>, <<"&amp;", "&">>, <<"&lt;", "<">>, <<"&gt;", ">">>,
    <<"&quot;", "\"">>, <<"&#39;", "'">>, <<"&apos", "'">>,
    <<"&mdash;", EmDash>>, <<"&ndash;", EnDash>>, <<"&hellip;", "...">>,
    <<"&copy;", CopyrightSign>>, <<"&reg;", RegisteredSign>>, <<"&trade;", TradeMarkSign>> >>

\* the map `replacements`, as entity/replacement pairs
replacements == <<
    <<"&nbsp;", " ">>, <<"&amp;", "&">>, <<"&lt;", "<">>, <<"&gt;", ">">>,
    <<"&quot;", "\"">>, <<"&#39;", "'">>, <<"&apos;", "'">>,
    <<"&mdash;", EmDash>>, <<"&ndash;", EnDash>>, <<"&hellip;", "...">>,
    <<"&copy;", CopyrightSign>>, <<"&reg;", RegisteredSign>>, <<"&trade;", TradeMarkSign>> >>

AmpIndex == CHOOSE i \in 1..Len(replacements) : replacements[i][1] = "&amp;"

\* \d of the regular expressions: an ASCII digit
IsAsciiDigit(c) == c \in CharsOf(DigitChars)

\* the match of `&#\d+;` that starts at k: its last position, or 0
NumericEntityEnd(s, k) ==
    LET Closed(e) == IF At(s, e) = ";" THEN e ELSE 0
    IN  IF HasAt(s, k, "&#") /\ IsAsciiDigit(At(s, k + 2))
        THEN Closed(CHOOSE e \in (k + 3)..(Len(s) + 1) :
                        ~IsAsciiDigit(At(s, e)) /\ \A j \in (k + 3)..(e - 1) : IsAsciiDigit(At(s, j)))
        ELSE 0

\* `regexp.MustCompile(`&#\d+;`).ReplaceAllString(text, " ")`
StripNumericEntities(s) ==
    ReplaceSpans(s, [k \in 1..Len(s) |-> NumericEntityEnd(s, k)], " ")

RECURSIVE ReplaceInOrder(_, _, _)
\* the loop over the map, visiting its entries in the order `order`
ReplaceInOrder(s, order, i) ==
    IF i > Len(order) THEN s
    ELSE ReplaceInOrder(ReplaceAll(s, replacements[order[i]][1], replacements[order[i]][2]), order, i + 1)

\* decodeHTMLEntities when the range over the map visits the entries in `order`
DecodeInOrder(s, order) == StripNumericEntities(ReplaceInOrder(s, order, 1))

\* the entries whose entity the replacement of "&amp;" by "&" creates in s
\* ("&amp;lt;" becomes "&lt;"): only for them does it matter whether the range
\* visits them before or after "&amp;", since no other replacement produces
\* a rune that an entity contains
CreatedByAmp(s) ==
    {i \in 1..Len(replacements) :
        /\ i # AmpIndex
        /\ Contains(s, "&amp;" \o SubSeq(replacements[i][1], 2, Len(replacements[i][1])))}

\* the entries of S in ascending order
RECURSIVE Ascending(_)
Ascending(S) == IF S = {} THEN <<>> ELSE <<Min(S)>> \o Ascending(S \ {Min(S)})

\* one visiting order for every way the range over the map can place "&amp;"
\* relative to the entries that depend on it
MapOrders(s) ==
    {Ascending((1..Len(replacements)) \ (late \cup {AmpIndex})) \o <<AmpIndex>> \o Ascending(late) :
        late \in SUBSET CreatedByAmp(s)}

\* the values decodeHTMLEntities(text) can return (the map is ranged over in
\* an unspecified order)
decodeHTMLEntities(s) == {DecodeInOrder(s, order) : order \in MapOrders(s)}

-----------------------------------------------------------------------------
(* extractMetaContent *)

\* ["'] of the patterns
IsQuote(c) == c \in {"\"", "'"}

\* no ">" at the positions a..b of s: what [^>]+ can span
NoGt(s, a, b) == \A k \in a..b : At(s, k) # ">"

\* the first position of s at or after `from` that holds c, Len(s) + 1 when none does
NextOf(s, c, from) ==
    IF from > Len(s) THEN Len(s) + 1
    ELSE CHOOSE k \in from..(Len(s) + 1) :
            /\ k = Len(s) + 1 \/ SubSeq(s, k, k) = c
            /\ \A j \in from..(k - 1) : SubSeq(s, j, j) # c

\* the first position of s at or after `from` that holds a quote, Len(s) + 1 when none does
NextQuote(s, from) ==
    IF from > Len(s) THEN Len(s) + 1
    ELSE CHOOSE k \in from..(Len(s) + 1) :
            /\ k = Len(s) + 1 \/ IsQuote(SubSeq(s, k, k))
            /\ \A j \in from..(k - 1) : ~IsQuote(SubSeq(s, j, j))

\* attr=["']name["'] matches at position p of the lower-cased html
AttrAt(lower, p, attr, lname) ==
    /\ HasAt(lower, p, attr \o "=")
    /\ IsQuote(At(lower, p + Len(attr) + 1))
    /\ HasAt(lower, p + Len(attr) + 2, lname)
    /\ IsQuote(At(lower, p + Len(attr) + 2 + Len(lname)))

\* the position after that match
AttrNext(p, attr, lname) == p + Len(attr) + Len(lname) + 3

\* content=["']([^"']+)["'] matches at position c: the capture is the run of
\* non-quotes after the opening quote, which must not be empty and must end
\* at a quote
ContentAt(lower, c) ==
    /\ HasAt(lower, c, "content=")
    /\ IsQuote(At(lower, c + 8))
    /\ NextQuote(lower, c + 9) > c + 9
    /\ NextQuote(lower, c + 9) <= Len(lower)

\* the position after that match
ContentNext(lower, c) == NextQuote(lower, c + 9) + 1

\* the text the group captures
ContentCapture(page, lower, c) == Sub(page, c + 9, NextQuote(lower, c + 9) - 1)

\* (?i)<meta[^>]+attr=["']name["'][^>]+content=["']([^"']+)["'] matches with
\* "<meta" at i, attr= at p and content= at c
AttrFirstMatch(lower, attr, lname, i, p, c) ==
    /\ HasAt(lower, i, "<meta")
    /\ p >= i + 6
    /\ c >= AttrNext(p, attr, lname) + 1
    /\ AttrAt(lower, p, attr, lname)
    /\ ContentAt(lower, c)
    /\ NoGt(lower, i + 5, p - 1)
    /\ NoGt(lower, AttrNext(p, attr, lname), c - 1)

\* (?i)<meta[^>]+content=["']([^"']+)["'][^>]+attr=["']name["'] matches with
\* "<meta" at i, content= at c and attr= at p
ContentFirstMatch(lower, attr, lname, i, c, p) ==
    /\ HasAt(lower, i, "<meta")
    /\ c >= i + 6
    /\ ContentAt(lower, c)
    /\ p >= ContentNext(lower, c) + 1
    /\ AttrAt(lower, p, attr, lname)
    /\ NoGt(lower, i + 5, c - 1)
    /\ NoGt(lower, ContentNext(lower, c), p - 1)

NoMatch == [found |-> FALSE, capture |-> ""]

\* re.FindStringSubmatch(html) for the attribute-before-content pattern, on
\* the page and its lower-cased copy (the pattern is (?i)), metas being the
\* positions of "<meta": the leftmost match; both [^>]+ are greedy, so of the
\* matches that start there the one with the last attr=, and then the last
\* content=, is taken.  [^>]+ cannot pass a ">", which bounds the positions
\* to look at.
FindAttrFirst(page, lower, metas, attr, lname) ==
    LET Tag(i) == (i + 6)..NextOf(lower, ">", i + 5)
        Matches(i, p) ==
            /\ AttrAt(lower, p, attr, lname)
            /\ \E c \in Tag(i) : AttrFirstMatch(lower, attr, lname, i, p, c)
        Capture(i, p) ==
            ContentCapture(page, lower, Max({c \in Tag(i) : AttrFirstMatch(lower, attr, lname, i, p, c)}))
        From(i) == Capture(i, Max({p \in Tag(i) : Matches(i, p)}))
        Leftmost(starts) ==
            IF starts = {} THEN NoMatch ELSE [found |-> TRUE, capture |-> From(Min(starts))]
    IN  Leftmost({i \in metas : \E p \in Tag(i) : Matches(i, p)})

\* re.FindStringSubmatch(html) for the content-before-attribute pattern
FindContentFirst(page, lower, metas, attr, lname) ==
    LET Tag(i) == (i + 6)..NextOf(lower, ">", i + 5)
        After(c) == (ContentNext(lower, c) + 1)..NextOf(lower, ">", ContentNext(lower, c))
        Matches(i, c) ==
            /\ ContentAt(lower, c)
            /\ \E p \in After(c) : ContentFirstMatch(lower, attr, lname, i, c, p)
        From(i) == ContentCapture(page, lower, Max({c \in Tag(i) : Matches(i, c)}))
        Leftmost(starts) ==
            IF starts = {} THEN NoMatch ELSE [found |-> TRUE, capture |-> From(Min(starts))]
    IN  Leftmost({i \in metas : \E c \in Tag(i) : Matches(i, c)})

\* the four patterns with the two name= patterns tried first
MetaMatch_Mutant(page, name) ==
    LET FirstFound(m1, m2, m3, m4) ==
            IF m3.found THEN m3 ELSE IF m4.found THEN m4 ELSE IF m1.found THEN m1 ELSE m2
        Among(lower, lname, metas) ==
            FirstFound(FindAttrFirst(page, lower, metas, "property", lname),
                       FindContentFirst(page, lower, metas, "property", lname),
                       FindAttrFirst(page, lower, metas, "name", lname),
                       FindContentFirst(page, lower, metas, "name", lname))
        In(lower) ==
            Among(lower, ToLower(name),
                  {i \in 1..(Len(lower) - 4) : SubSeq(lower, i, i + 4) = "<meta"})
    IN  In(ToLower(page))

\* the four patterns, in the order of the slice `patterns`
MetaMatch(page, name) ==
    LET FirstFound(m1, m2, m3, m4) ==
            IF m1.found THEN m1 ELSE IF m2.found THEN m2 ELSE IF m3.found THEN m3 ELSE m4
        Among(lower, lname, metas) ==
            FirstFound(FindAttrFirst(page, lower, metas, "property", lname),
                       FindContentFirst(page, lower, metas, "property", lname),
                       FindAttrFirst(page, lower, metas, "name", lname),
                       FindContentFirst(page, lower, metas, "name", lname))
        In(lower) ==
            Among(lower, ToLower(name),
                  {i \in 1..(Len(lower) - 4) : SubSeq(lower, i, i + 4) = "<meta"})
    IN  In(ToLower(page))

\* the values extractMetaContent(html, name) can return
extractMetaContent(page, name) ==
    LET Values(m) ==
            IF m.found THEN {TrimSpace(d) : d \in decodeHTMLEntities(m.capture)} ELSE {""}
    IN  Values(MetaMatch(page, name))

-----------------------------------------------------------------------------
(* extractFirstParagraph *)

\* the match of `<[^>]+>` that starts at k: its last position, or 0
TagEnd(s, k) ==
    LET Closed(g) == IF g >= k + 2 /\ g <= Len(s) THEN g ELSE 0
    IN  IF At(s, k) = "<" THEN Closed(NextOf(s, ">", k + 1)) ELSE 0

\* regexp.MustCompile(`<[^>]+>`).ReplaceAllString(s, new)
ReplaceTags(s, new) == ReplaceSpans(s, [k \in 1..Len(s) |-> TagEnd(s, k)], new)

\* the first position at or after `from` where lit occurs in s, 0 when none
IndexFrom(s, lit, from) ==
    LET last == Len(s) - Len(lit) + 1
        Here(k) == SubSeq(s, k, k + Len(lit) - 1) = lit
    IN  IF \A k \in from..last : ~Here(k) THEN 0
        ELSE CHOOSE k \in from..last : Here(k) /\ \A j \in from..(k - 1) : ~Here(j)

\* (?is)<article[^>]*>(.*?)</article> matches with "<article" at i
ArticleAt(lower, i) ==
    LET Closed(g) == g <= Len(lower) /\ IndexFrom(lower, "</article>", g + 1) > 0
    IN  HasAt(lower, i, "<article") /\ Closed(NextOf(lower, ">", i + 8))

\* the search not restricted to the article region
ArticleRegion_Mutant(page) == page

\* `if m := re.FindStringSubmatch(html); len(m) > 1 { html = m[1] }`
ArticleRegion(page) ==
    LET Inside(lower, g) == Sub(page, g + 1, IndexFrom(lower, "</article>", g + 1) - 1)
        Leftmost(lower, starts) ==
            IF starts = {} THEN page ELSE Inside(lower, NextOf(lower, ">", Min(starts) + 8))
        In(lower) == Leftmost(lower, {i \in 1..Len(lower) : ArticleAt(lower, i)})
    IN  In(ToLower(page))

MinParagraphRunes == 100

\* the match of (?is)<p[^>]*>([^<]{100,})</p> that starts at i: its last
\* position, or 0.  The capture is the run of non-"<" after the first ">"
ParagraphEnd(lower, i) ==
    LET Closed(g, l) ==
            IF g <= Len(lower) /\ l - g >= MinParagraphRunes /\ HasAt(lower, l + 1, "</p>")
            THEN l + 4
            ELSE 0
        Opened(g) == Closed(g, NextOf(lower, "<", g + 1) - 1)
    IN  IF HasAt(lower, i, "<p") THEN Opened(NextOf(lower, ">", i + 2)) ELSE 0

\* m[1] of the match that starts at i
ParagraphCapture(page, lower, i) ==
    LET Opened(g) == Sub(page, g + 1, NextOf(lower, "<", g + 1) - 1)
    IN  Opened(NextOf(lower, ">", i + 2))

MaxParagraphMatches == 5

\* re.FindAllStringSubmatch(html, 5): the captures of the first five matches
ParagraphCandidates(page) ==
    LET Captures(lower, sel) ==
            [j \in 1..(IF Len(sel) < MaxParagraphMatches THEN Len(sel) ELSE MaxParagraphMatches) |->
                ParagraphCapture(page, lower, sel[j])]
        Matches(lower, ends) == Captures(lower, Ascending(SelectMatches(ends, Len(lower), 1)))
        In(lower) == Matches(lower, [i \in 1..Len(lower) |-> ParagraphEnd(lower, i)])
    IN  In(ToLower(page))

MinParagraphBytes == 50
MaxParagraphBytes == 300

\* `strings.Contains(text, "{") || strings.Contains(text, "function") ||
\*  strings.Contains(text, "var ") || len(text) < 50`
ParagraphRejected(t) ==
    \/ Contains(t, "{")
    \/ Contains(t, "function")
    \/ Contains(t, "var ")
    \/ GoLen(t) < MinParagraphBytes

\* `if len(text) > 300 { text = text[:300] + "..." }`
TruncateParagraph(t) ==
    IF GoLen(t) > MaxParagraphBytes THEN BytePrefix(t, MaxParagraphBytes) \o "..." ELSE t

\* the candidate m[1] cleaned: trimmed, tags removed, entities decoded, trimmed
CleanParagraph(capture) ==
    {TrimSpace(d) : d \in decodeHTMLEntities(ReplaceTags(TrimSpace(capture), ""))}

RECURSIVE ParagraphFrom(_, _)
\* the loop over matches from the j-th on: the values it can return
ParagraphFrom(cands, j) ==
    IF j > Len(cands) THEN {""}
    ELSE UNION {IF ParagraphRejected(t) THEN ParagraphFrom(cands, j + 1) ELSE {TruncateParagraph(t)} :
                    t \in CleanParagraph(cands[j])}

\* the values extractFirstParagraph(html) can return
extractFirstParagraph(page) == ParagraphFrom(ParagraphCandidates(ArticleRegion(page)), 1)

-----------------------------------------------------------------------------
(* time.Parse and Time.Format, for the two layouts generateSummary uses *)

DigitValue(c) == CHOOSE d \in 0..9 : SubSeq(DigitChars, d + 1, d + 1) = c

AllDigits(s) == s # "" /\ \A k \in 1..Len(s) : IsAsciiDigit(At(s, k))

\* the value of the two digits of s at a and a + 1, -1 when they are not digits
TwoDigits(s, a) ==
    IF IsAsciiDigit(At(s, a)) /\ IsAsciiDigit(At(s, a + 1))
    THEN 10 * DigitValue(At(s, a)) + DigitValue(At(s, a + 1))
    ELSE -1

YearOf(s) ==
    1000 * DigitValue(At(s, 1)) + 100 * DigitValue(At(s, 2))
        + 10 * DigitValue(At(s, 3)) + DigitValue(At(s, 4))

IsLeap(year) == year % 4 = 0 /\ (year % 100 # 0 \/ year % 400 = 0)

DaysIn(month, year) ==
    IF month = 2 THEN (IF IsLeap(year) THEN 29 ELSE 28)
    ELSE IF month \in {4, 6, 9, 11} THEN 30 ELSE 31

\* the value starts with a date of the layout "2006-01-02" that is in range
DateOK(s) ==
    /\ AllDigits(Sub(s, 1, 4))
    /\ At(s, 5) = "-" /\ At(s, 8) = "-"
    /\ TwoDigits(s, 6) \in 1..12
    /\ TwoDigits(s, 9) >= 1
    /\ TwoDigits(s, 9) <= DaysIn(TwoDigits(s, 6), YearOf(s))

\* "15" takes one or two digits: the position after the hour that starts at a
HourEnd(s, a) == IF IsAsciiDigit(At(s, a + 1)) THEN a + 2 ELSE a + 1

HourValue(s, a) ==
    IF ~IsAsciiDigit(At(s, a)) THEN -1
    ELSE IF IsAsciiDigit(At(s, a + 1)) THEN TwoDigits(s, a) ELSE DigitValue(At(s, a))

\* the position after the fractional seconds that may follow the seconds at a
FractionEnd(s, a) ==
    IF At(s, a) \in {".", ","} /\ IsAsciiDigit(At(s, a + 1))
    THEN CHOOSE k \in (a + 1)..(Len(s) + 1) :
            ~IsAsciiDigit(At(s, k)) /\ \A j \in (a + 1)..(k - 1) : IsAsciiDigit(At(s, j))
    ELSE a

\* "Z07:00" at a, up to the end of the value
ZoneOK(s, a) ==
    \/ Sub(s, a, Len(s)) = "Z"
    \/ /\ Len(s) = a + 5
       /\ At(s, a) \in {"+", "-"}
       /\ TwoDigits(s, a + 1) \in 0..24
       /\ At(s, a + 3) = ":"
       /\ TwoDigits(s, a + 4) \in 0..60

\* time.Parse(time.RFC3339, s) returns no error
ParsesRFC3339(s) ==
    /\ DateOK(s)
    /\ At(s, 11) = "T"
    /\ HourValue(s, 12) \in 0..23
    /\ LET Rest(m) ==
               /\ At(s, m) = ":"
               /\ TwoDigits(s, m + 1) \in 0..59
               /\ At(s, m + 3) = ":"
               /\ TwoDigits(s, m + 4) \in 0..59
               /\ ZoneOK(s, FractionEnd(s, m + 6))
       IN  Rest(HourEnd(s, 12))

\* time.Parse("2006-01-02", s) returns no error
ParsesDate(s) == DateOK(s) /\ Len(s) = 10

MonthNames == <<"January", "February", "March", "April", "May", "June", "July",
                "August", "September", "October", "November", "December">>

\* t.Format("January 2, 2006") of the time parsed from s: the date as written,
\* for the time is formatted in the zone it was parsed in
FormatDate(s) ==
    MonthNames[TwoDigits(s, 6)] \o " "
        \o (IF At(s, 9) = "0" THEN At(s, 10) ELSE Sub(s, 9, 10)) \o ", " \o Sub(s, 1, 4)

-----------------------------------------------------------------------------
(* generateSummary *)

\* `x := f(); if x == "" { x = g() }` over the values f() and g() can return
OrElse(first, second) == (first \ {""}) \cup (IF "" \in first THEN second ELSE {})

\* (?i)<title[^>]*>([^<]+)</title> matches with "<title" at i
TitleTagAt(lower, i) ==
    LET Closed(g, l) == g <= Len(lower) /\ l > g + 1 /\ HasAt(lower, l, "</title>")
        Opened(g) == Closed(g, NextOf(lower, "<", g + 1))
    IN  HasAt(lower, i, "<title") /\ Opened(NextOf(lower, ">", i + 6))

\* the title the <title> element gives, "" when the pattern does not match
TitleTag(page) ==
    LET Inside(lower, g) == TrimSpace(Sub(page, g + 1, NextOf(lower, "<", g + 1) - 1))
        Leftmost(lower, starts) ==
            IF starts = {} THEN "" ELSE Inside(lower, NextOf(lower, ">", Min(starts) + 6))
        In(lower) == Leftmost(lower, {i \in 1..Len(lower) : TitleTagAt(lower, i)})
    IN  In(ToLower(page))

\* the fields with the description read from meta[description] first
Fields_Mutant(page) ==
    [title : OrElse(OrElse(extractMetaContent(page, "og:title"),
                           extractMetaContent(page, "twitter:title")),
                    {TitleTag(page)}),
     description : OrElse(OrElse(extractMetaContent(page, "description"),
                                 extractMetaContent(page, "og:description")),
                          extractMetaContent(page, "twitter:description")),
     siteName : OrElse(extractMetaContent(page, "og:site_name"),
                       extractMetaContent(page, "application-name")),
     contentType : extractMetaContent(page, "og:type"),
     author : OrElse(extractMetaContent(page, "author"),
                     extractMetaContent(page, "article:author")),
     publishDate : OrElse(extractMetaContent(page, "article:published_time"),
                          extractMetaContent(page, "datePublished"))]

\* steps 1 to 6: the metadata fields generateSummary can resolve
Fields(page) ==
    [title : OrElse(OrElse(extractMetaContent(page, "og:title"),
                           extractMetaContent(page, "twitter:title")),
                    {TitleTag(page)}),
     description : OrElse(OrElse(extractMetaContent(page, "og:description"),
                                 extractMetaContent(page, "description")),
                          extractMetaContent(page, "twitter:description")),
     siteName : OrElse(extractMetaContent(page, "og:site_name"),
                       extractMetaContent(page, "application-name")),
     contentType : extractMetaContent(page, "og:type"),
     author : OrElse(extractMetaContent(page, "author"),
                     extractMetaContent(page, "article:author")),
     publishDate : OrElse(extractMetaContent(page, "article:published_time"),
                          extractMetaContent(page, "datePublished"))]

MaxDescriptionBytes == 400

\* the description after its clean-up, when it is not empty
CleanDescription(description) ==
    LET Truncate(d) ==
            IF GoLen(d) > MaxDescriptionBytes THEN BytePrefix(d, MaxDescriptionBytes) \o "..." ELSE d
    IN  {Truncate(TrimSpace(d)) : d \in decodeHTMLEntities(description)}

SitePart(f) == IF f.siteName # "" /\ f.siteName # f.title THEN <<"From " \o f.siteName \o ".">> ELSE <<>>

TypePart(f) ==
    IF f.contentType # "" /\ f.contentType # "website"
    THEN <<Title(ReplaceAll(f.contentType, "_", " ")) \o ".">>
    ELSE <<>>

AuthorPart(f) == IF f.author # "" THEN <<"By " \o f.author \o ".">> ELSE <<>>

DatePart(f) ==
    IF f.publishDate # "" /\ (ParsesRFC3339(f.publishDate) \/ ParsesDate(f.publishDate))
    THEN <<"Published " \o FormatDate(f.publishDate) \o ".">>
    ELSE <<>>

\* the parts after "Build human-readable summary": desc is the cleaned
\* description ("" when the field is empty or cleans to nothing), para the
\* value of extractFirstParagraph, consulted only when desc is ""
BuiltParts(f, desc, para) ==
    SitePart(f) \o TypePart(f)
        \o (IF f.description # "" THEN <<desc>> ELSE <<>>)
        \o AuthorPart(f) \o DatePart(f)
        \o (IF desc = "" /\ para # "" THEN <<para>> ELSE <<>>)

\* the switch on the url as given, not lower-cased
PlatformPart_Mutant(link, videoTitle) ==
    IF Contains(link, "youtube.com") \/ Contains(link, "youtu.be")
    THEN (IF videoTitle # "" THEN <<"YouTube video: " \o videoTitle>> ELSE <<>>)
    ELSE IF Contains(link, "instagram.com") THEN <<"Instagram post.">>
    ELSE IF Contains(link, "linkedin.com") THEN <<"LinkedIn content.">>
    ELSE IF Contains(link, "twitter.com") \/ Contains(link, "x.com") THEN <<"Twitter/X post.">>
    ELSE IF Contains(link, "github.com") THEN <<"GitHub repository or page.">>
    ELSE <<>>

\* the switch on the lower-cased url; videoTitle is the og:title read again
PlatformPart(link, videoTitle) ==
    LET Switch(urlLower) ==
        IF Contains(urlLower, "youtube.com") \/ Contains(urlLower, "youtu.be")
        THEN (IF videoTitle # "" THEN <<"YouTube video: " \o videoTitle>> ELSE <<>>)
        ELSE IF Contains(urlLower, "instagram.com") THEN <<"Instagram post.">>
        ELSE IF Contains(urlLower, "linkedin.com") THEN <<"LinkedIn content.">>
        ELSE IF Contains(urlLower, "twitter.com") \/ Contains(urlLower, "x.com") THEN <<"Twitter/X post.">>
        ELSE IF Contains(urlLower, "github.com") THEN <<"GitHub repository or page.">>
        ELSE <<>>
    IN  Switch(ToLower(link))

\* `len(parts) == 0 || (len(parts) == 1 && siteName != "")`
NeedsPlatform(parts, f) == Len(parts) = 0 \/ (Len(parts) = 1 /\ f.siteName # "")

\* the markers of "Make sure we don't have JavaScript garbage"
Markers == {"function", "window.", "{", "var ", "ytcfg", "ytplayer"}

HasMarker(s) == \E marker \in Markers : Contains(s, marker)

\* "Fall back to just title + site"
Rebuilt(f) ==
    Join((IF f.siteName # "" THEN <<"From " \o f.siteName \o ".">> ELSE <<>>)
            \o (IF f.title # "" THEN <<f.title>> ELSE <<>>), " ")

SafetyNet(sum, f) == IF HasMarker(sum) THEN Rebuilt(f) ELSE sum

NoDescription == "No description available for this page."

TerminalFallback_Mutant(sum) == sum

\* `if summary == "" { summary = "No description available for this page." }`
TerminalFallback(sum) == IF sum = "" THEN NoDescription ELSE sum

\* `parts` when strings.Join is called, for one outcome of every read of the
\* document
PartsAtJoin(f, desc, para, videoTitle, link) ==
    LET Parts(built) ==
            IF NeedsPlatform(built, f) THEN built \o PlatformPart(link, videoTitle) ELSE built
    IN  Parts(BuiltParts(f, desc, para))

\* the summary for one outcome of every read of the document
Assemble(f, desc, para, videoTitle, link) ==
    TerminalFallback(SafetyNet(TrimSpace(Join(PartsAtJoin(f, desc, para, videoTitle, link), " ")), f))

\* the local variables of generateSummary when it returns: resolved is the
\* description of step 2, `description` and firstPara have their last values,
\* built is the value of `parts` before the switch on the url, joined the
\* summary the final cleanup looks at
SummaryLocals(f, desc, para, videoTitle, link) ==
    [title |-> f.title, resolved |-> f.description, description |-> desc, siteName |-> f.siteName,
     contentType |-> f.contentType, author |-> f.author, publishDate |-> f.publishDate,
     firstPara |-> para,
     built |-> BuiltParts(f, desc, para),
     parts |-> PartsAtJoin(f, desc, para, videoTitle, link),
     joined |-> TrimSpace(Join(PartsAtJoin(f, desc, para, videoTitle, link), " ")),
     summary |-> Assemble(f, desc, para, videoTitle, link)]

\* the calls generateSummary(html, url) can make: the locals of each
SummaryRuns(page, link) ==
    UNION {
        UNION {
            {SummaryLocals(f, desc, para, videoTitle, link) :
                videoTitle \in extractMetaContent(page, "og:title")} :
            <<desc, para>> \in
                IF f.description # ""
                THEN {<<d, IF d = "" THEN p ELSE "">> :
                        d \in CleanDescription(f.description),
                        p \in extractFirstParagraph(page)}
                ELSE {<<"", p>> : p \in extractFirstParagraph(page)}} :
        f \in Fields(page)}

\* the values generateSummary(html, url) can return
generateSummary(page, link) == {r.summary : r \in SummaryRuns(page, link)}

\* the locals before the call
NoLocals ==
    [title |-> "", resolved |-> "", description |-> "", siteName |-> "", contentType |-> "", author |-> "",
     publishDate |-> "", firstPara |-> "", built |-> <<>>, parts |-> <<>>, joined |-> "",
     summary |-> ""]
-----------------------------------------------------------------------------
(* extractText *)

\* the match of (?is)<tag[^>]*>.*?</tag> that starts at i: its last position, or 0
BlockEnd(lower, i, tag) ==
    LET Closed(close) == IF close > 0 THEN close + Len(tag) + 2 ELSE 0
        Opened(g) ==
            IF g <= Len(lower) THEN Closed(IndexFrom(lower, "</" \o tag \o ">", g + 1)) ELSE 0
    IN  IF HasAt(lower, i, "<" \o tag) THEN Opened(NextOf(lower, ">", i + Len(tag) + 1)) ELSE 0

\* regexp.MustCompile(`(?is)<tag[^>]*>.*?</tag>`).ReplaceAllString(html, " ")
RemoveBlocks(page, tag) ==
    LET In(lower) == ReplaceSpans(page, [i \in 1..Len(page) |-> BlockEnd(lower, i, tag)], " ")
    IN  In(ToLower(page))

JsonLdType == "application/ld+json"

\* type=["']application/ld\+json["'] at position p
JsonLdTypeAt(lower, p) ==
    /\ HasAt(lower, p, "type=")
    /\ IsQuote(At(lower, p + 5))
    /\ HasAt(lower, p + 6, JsonLdType)
    /\ IsQuote(At(lower, p + 6 + Len(JsonLdType)))

\* the match of (?is)<script[^>]*type=["']application/ld\+json["'][^>]*>.*?</script>
\* that starts at i: its last position, or 0
JsonLdEnd(lower, i) ==
    LET Closed(close) == IF close > 0 THEN close + 8 ELSE 0
        Opened(g) == IF g <= Len(lower) THEN Closed(IndexFrom(lower, "</script>", g + 1)) ELSE 0
        Typed(types) ==
            IF types = {} THEN 0
            ELSE Opened(NextOf(lower, ">", Min(types) + 7 + Len(JsonLdType)))
    IN  IF HasAt(lower, i, "<script")
        THEN Typed({p \in (i + 7)..NextOf(lower, ">", i + 7) : JsonLdTypeAt(lower, p)})
        ELSE 0

RemoveJsonLd(page) ==
    LET In(lower) == ReplaceSpans(page, [i \in 1..Len(page) |-> JsonLdEnd(lower, i)], " ")
    IN  In(ToLower(page))

\* `for _, tag := range []string{"nav", "footer", "header", "aside", "menu"}`
BoilerplateTags == <<"nav", "footer", "header", "aside", "menu">>

RECURSIVE RemoveBoilerplate(_, _)
RemoveBoilerplate(page, k) ==
    IF k > Len(BoilerplateTags) THEN page
    ELSE RemoveBoilerplate(RemoveBlocks(page, BoilerplateTags[k]), k + 1)

\* the match of `open[^close]*close` that starts at k: its last position, or 0
BracketEnd(s, k, open, close) ==
    IF At(s, k) = open /\ NextOf(s, close, k + 1) <= Len(s) THEN NextOf(s, close, k + 1) ELSE 0

\* regexp.MustCompile(`\{[^}]*\}`) or (`\[[^\]]*\]`) .ReplaceAllString(s, " ")
RemoveBrackets(s, open, close) ==
    ReplaceSpans(s, [k \in 1..Len(s) |-> BracketEnd(s, k, open, close)], " ")

\* the class \s of the regexp package
IsRegexpSpace(c) == c \in {" ", "\t", "\n", "\f", "\r"}

\* the match of `\s+` that starts at k: its last position, or 0
SpaceRunEnd(s, k) ==
    IF IsRegexpSpace(At(s, k))
    THEN CHOOSE e \in k..Len(s) :
            ~IsRegexpSpace(At(s, e + 1)) /\ \A j \in k..e : IsRegexpSpace(At(s, j))
    ELSE 0

\* regexp.MustCompile(`\s+`).ReplaceAllString(s, " ")
NormalizeSpace(s) == ReplaceSpans(s, [k \in 1..Len(s) |-> SpaceRunEnd(s, k)], " ")

\* the html with every block and every tag replaced by a space
Untagged(page) ==
    ReplaceTags(
        RemoveBoilerplate(
            RemoveJsonLd(RemoveBlocks(RemoveBlocks(RemoveBlocks(page, "script"), "style"), "noscript")),
            1),
        " ")

\* the values extractText(html) can return
extractText(page) ==
    {TrimSpace(NormalizeSpace(RemoveBrackets(RemoveBrackets(t, "{", "}"), "[", "]"))) :
        t \in decodeHTMLEntities(Untagged(page))}

-----------------------------------------------------------------------------
(* analyzeURL *)

\* stringContainsCTLByte: a byte below 0x20 or 0x7f
HasControlByte(s) == \E k \in 1..Len(s) : At(s, k) \in {"\t", "\n", "\r", "\f"}

IsSchemeLetter(c) == c \in CharsOf(LowerAlpha) \cup CharsOf(UpperAlpha)

IsSchemeOther(c) == IsAsciiDigit(c) \/ c \in {"+", "-", "."}

\* getScheme: the position of the ":" that ends the scheme, 0 when the url
\* has no scheme, -1 for the error "missing protocol scheme"
SchemeEnd(s) ==
    LET stops == {k \in 1..Len(s) :
                     \/ ~(IsSchemeLetter(At(s, k)) \/ IsSchemeOther(At(s, k)))
                     \/ (k = 1 /\ IsSchemeOther(At(s, k)))}
    IN  IF stops = {} THEN 0
        ELSE IF At(s, Min(stops)) # ":" THEN 0
        ELSE IF Min(stops) = 1 THEN -1
        ELSE Min(stops)

\* "first path segment in URL cannot contain colon"
ColonInFirstSegment(rest) ==
    /\ At(rest, 1) # "/"
    /\ Contains(Sub(rest, 1, NextOf(rest, "/", 1) - 1), ":")

\* url.Parse(s) returns an error (the checks a url without "#", a query, an
\* escape, user information or a port goes through)
ParseFails(s) ==
    \/ HasControlByte(s)
    \/ SchemeEnd(s) = -1
    \/ SchemeEnd(s) = 0 /\ ColonInFirstSegment(s)

NilRequest == [nil |-> TRUE, url |-> "", header |-> ""]

\* http.NewRequest("GET", url, nil): the request, nil with an error when the
\* url does not parse.  analyzeURL drops the error
NewRequest(u) ==
    IF ParseFails(u) THEN NilRequest ELSE [nil |-> FALSE, url |-> u, header |-> ""]

UserAgent == "Mozilla/5.0 (Windows NT 10.0; Win64; x64) AppleWebKit/537.36"

\* the transport can carry the request: an http or https url that names a host
CanSend(r) ==
    LET lower == ToLower(r.url)
    IN  \/ HasAt(lower, 1, "http://") /\ Len(lower) > 7 /\ At(lower, 8) # "/"
        \/ HasAt(lower, 1, "https://") /\ Len(lower) > 8 /\ At(lower, 9) # "/"

\* the response: its status, the body the server sends and the number of
\* bytes of it that arrive before the body ends or the read fails
NoResponse == [status |-> 0, body |-> "", read |-> 0]

NilAnalysis == [nil |-> TRUE, Summary |-> "", Keywords |-> NilSlice]

\* `&ContentAnalysis{Summary: summary, Keywords: keywords}`
ContentAnalysis(s, k) == [nil |-> FALSE, Summary |-> s, Keywords |-> k]

\* err is "" for a nil error
NoResult == [analysis |-> NilAnalysis, err |-> ""]

\* the error wrapped in a message
FailureResult_Mutant(e) == [analysis |-> NilAnalysis, err |-> "fetch failed: " \o e]

\* `if err != nil { return nil, err }`
FailureResult(e) == [analysis |-> NilAnalysis, err |-> e]

\* io.LimitReader(resp.Body, 500000)
BodyLimit == 500000

\* `body, _ := io.ReadAll(io.LimitReader(resp.Body, 500000)); html := string(body)`
\* when the body delivers n bytes before it ends or fails
ReadBody(body, n) == BytePrefix(body, Min({n, GoLen(body), BodyLimit}))

-----------------------------------------------------------------------------
(* The variables of the operations a specification does not exercise *)

\* no call of analyzeURL was made
RequestIdle ==
    /\ req = NilRequest /\ resp = NoResponse /\ result = NoResult
    /\ err = "" /\ requests = 0

\* no call of decodeHTMLEntities was made
DecodeIdle == decoded = "" /\ redecoded = ""

\* no call of extractMetaContent was made
MetaIdle == metaName = "" /\ metaContent = ""

\* no concurrent calls run; the package-level variables are as initialised
ConcIdle == calls = <<>> /\ globals = [stopWords |-> stopWords]

\* no call of extractKeywords was made
KeywordsIdle ==
    /\ text = "" /\ typed = 0 /\ runs = 0 /\ words = <<>> /\ wordCounts = <<>>
    /\ keywords = NilSlice /\ prevKeywords = NilSlice

\* no call of generateSummary was made
SummaryIdle == html = "" /\ url = "" /\ summary = "" /\ pc = "idle"

\* the locals of generateSummary are not observed and no call of
\* extractFirstParagraph was made
LocalsIdle == locals = NoLocals /\ paragraph = ""

\* no bookmark is stored and HandleAnalyzeBookmark was not called
RefreshIdle == store = <<>> /\ handler = <<>>
-----------------------------------------------------------------------------
(* The texts the environment hands to extractKeywords *)

Word25 == "abcdefghijklmnopqrstuvwxy"
Word26 == "abcdefghijklmnopqrstuvwxyz"

\* the pieces the environment types, joined by single spaces
Chunks == {"cats", "Dogs,", "the", "div", "ab", "a12", "ab12",
           Word25, Word26, "~~~", "o^", "function", "window.open"}

RECURSIVE Repeat(_, _)
Repeat(w, n) == IF n = 0 THEN "" ELSE IF n = 1 THEN w ELSE w \o " " \o Repeat(w, n - 1)

DocWords == <<"ant", "bee", "cow", "doe", "eel", "fox", "gnu", "hen",
              "jay", "kit", "owl", "pig", "ram", "yak", "emu">>

RECURSIVE DocFrom(_)
DocFrom(i) ==
    IF i = Len(DocWords) THEN Repeat(DocWords[i], i + 1)
    ELSE Repeat(DocWords[i], i + 1) \o " " \o DocFrom(i + 1)

\* a page text with fifteen words that qualify, of counts 2, 3, ..., 16
LongDoc == DocFrom(1)

\* the text of the specification's Scenario B
ScenarioB == "cats cats cats dogs dogs birds"

\* the whole texts the environment can start from
Documents == {ScenarioB, LongDoc}

-----------------------------------------------------------------------------
(* Specification of the keyword ranker *)

KwInit ==
    /\ text = ""
    /\ typed = 0
    /\ runs = 0
    /\ words = <<>>
    /\ wordCounts = <<>>
    /\ keywords = NilSlice
    /\ prevKeywords = NilSlice
    /\ html = "" /\ url = "" /\ summary = "" /\ pc = "idle"
    /\ RequestIdle /\ DecodeIdle /\ MetaIdle /\ ConcIdle /\ LocalsIdle /\ RefreshIdle

\* the environment starts the text with a whole document
Paste(d) ==
    /\ runs = 0
    /\ typed = 0
    /\ typed < MaxChunks
    /\ text' = d
    /\ typed' = typed + 1
    /\ UNCHANGED <<runs, words, wordCounts, keywords, prevKeywords, sumVars, reqVars, decVars, metaVars, concVars, localVars, refreshVars>>

\* the environment extends the text, before the first call
Type(c) ==
    /\ runs = 0
    /\ typed < MaxChunks
    /\ text' = (IF text = "" THEN c ELSE text \o " " \o c)
    /\ typed' = typed + 1
    /\ UNCHANGED <<runs, words, wordCounts, keywords, prevKeywords, sumVars, reqVars, decVars, metaVars, concVars, localVars, refreshVars>>

\* one call extractKeywords(text)
ExtractKeywords ==
    /\ runs < MaxRuns
    /\ runs' = runs + 1
    /\ prevKeywords' = keywords
    /\ IF LooksLikeCode(text)
       THEN /\ keywords' = Slice(<<>>)
            /\ words' = <<>>
            /\ wordCounts' = <<>>
       ELSE /\ words' = FieldsFunc(ToLower(text))
            /\ wordCounts' = CountWords(words')
            /\ \E freqs \in SortSlice(FreqSet(wordCounts')) :
                   keywords' = KeywordsValue(freqs)
    /\ UNCHANGED <<text, typed, sumVars, reqVars, decVars, metaVars, concVars, localVars, refreshVars>>

KwNext ==
    \/ \E d \in Documents : Paste(d)
    \/ \E c \in Chunks : Type(c)
    \/ ExtractKeywords

SpecKw == KwInit /\ [][KwNext]_vars

-----------------------------------------------------------------------------
(* The documents the environment hands to generateSummary *)

Sentence == "Lorem ipsum dolor sit amet consectetur adipiscing elit sed do eiusmod tempor incididunt ut labore et dolore."

\* the pieces of markup a document is made of
\* the og:title element of a page titled t
OgTitle(t) == "<meta property=\"og:title\" content=\"" \o t \o "\">"

Fragments == {
    OgTitle("Cats"),
    OgTitle("Intro to function calls"),
    "<meta property=\"og:site_name\" content=\"Cats\">",
    "<meta property=\"og:site_name\" content=\"The function blog\">",
    "<meta name=\"description\" content=\"All about cats &amp;amp;amp; dogs.\">",
    "<meta property=\"og:description\" content=\"var x = 1;\">",
    "<meta content=\"Short\" name=\"twitter:description\">",
    "<meta property=\"og:type\" content=\"video.other\">",
    "<meta name=\"author\" content=\"Ann\">",
    "<meta property=\"article:published_time\" content=\"2024-02-29T10:00:00Z\">",
    "<title>JS function tips</title>",
    "<p>" \o Sentence \o "</p>"}

\* the urls of the bookmarked pages
Urls == {"https://a.io/post", "https://youtu.be/v", "https://www.YouTube.com/watch?v=1", "https://github.com/a/b"}

-----------------------------------------------------------------------------
(* Specification of generateSummary *)

SumInit ==
    /\ html = ""
    /\ url \in Urls
    /\ summary = ""
    /\ pc = "input"
    /\ typed = 0
    /\ text = "" /\ runs = 0 /\ words = <<>> /\ wordCounts = <<>>
    /\ keywords = NilSlice /\ prevKeywords = NilSlice
    /\ RequestIdle /\ DecodeIdle /\ MetaIdle /\ ConcIdle /\ LocalsIdle /\ RefreshIdle

\* the environment extends the document, before the call
AddFragment(f) ==
    /\ pc = "input"
    /\ typed < MaxFragments
    /\ html' = html \o f
    /\ typed' = typed + 1
    /\ UNCHANGED <<url, summary, pc, text, runs, words, wordCounts, keywords, prevKeywords, reqVars, decVars, metaVars, concVars, localVars, refreshVars>>

\* one call generateSummary(html, url)
GenerateSummary ==
    /\ pc = "input"
    /\ locals' \in SummaryRuns(html, url)
    /\ summary' = locals'.summary
    /\ pc' = "returned"
    /\ UNCHANGED <<html, url, kwVars, reqVars, decVars, metaVars, concVars, paragraph, refreshVars>>

SumNext ==
    \/ \E f \in Fragments : AddFragment(f)
    \/ GenerateSummary

SpecSum == SumInit /\ [][SumNext]_vars

-----------------------------------------------------------------------------
(* Specification of the composition of the summary *)

\* a meta element named by attr="key"
MetaTag(attr, key, value) == "<meta " \o attr \o "=\"" \o key \o "\" content=\"" \o value \o "\">"

SiteNames == {"Cats Daily", "The function blog"}

Descriptions == {"A great article about testing.", "var x = 1;"}

\* the pieces of markup a document is made of
Pieces ==
    {MetaTag("property", "og:site_name", s) : s \in SiteNames}
        \cup {MetaTag("property", "og:description", d) : d \in Descriptions}
        \cup {OgTitle("The function blog"),
              MetaTag("property", "og:type", "video.other"),
              MetaTag("name", "description", "All about cats."),
              "<meta content=\"Short\" name=\"twitter:description\">",
              MetaTag("name", "author", "Ann"),
              "<title>Test Page</title>",
              "<p>" \o Sentence \o "</p>"}

\* the urls of the bookmarked pages
PageUrls == {"https://a.io/post", "https://youtu.be/v", "https://github.com/a/b"}

ComposeInit ==
    /\ html = ""
    /\ url \in PageUrls
    /\ summary = ""
    /\ pc = "input"
    /\ KeywordsIdle
    /\ RequestIdle /\ DecodeIdle /\ MetaIdle /\ ConcIdle /\ LocalsIdle /\ RefreshIdle

ComposeNext ==
    \/ \E f \in Pieces : AddFragment(f)
    \/ GenerateSummary

SpecCompose == ComposeInit /\ [][ComposeNext]_vars

-----------------------------------------------------------------------------
(* Specification of the summary of a page with a long description *)

\* a text of 399 bytes
LongText == Sub(Sentence \o " " \o Sentence \o " " \o Sentence \o " " \o Sentence, 1, 399)

\* descriptions of 400 runes, of 401 bytes when the last rune is U+00F9, and
\* one of 410 runes
RoundDescription == LongText \o "s"
WideDescription == LongText \o WideLetter
LongDescription == LongText \o " and more."

\* the pieces of markup a document with such a description is made of
LongPieces ==
    {MetaTag("property", "og:description", d) :
        d \in {RoundDescription, WideDescription, LongDescription}}
        \cup {MetaTag("property", "og:site_name", "Cats Daily"),
              MetaTag("property", "og:type", "video.other"),
              MetaTag("name", "author", "Ann"),
              MetaTag("property", "article:published_time", "2024-02-29T10:00:00Z")}

DescribeNext ==
    \/ \E f \in LongPieces : AddFragment(f)
    \/ GenerateSummary

SpecDescribe == ComposeInit /\ [][DescribeNext]_vars

-----------------------------------------------------------------------------
(* Specification of analyzeURL *)

\* the urls analyzeURL is called with
CallUrls == Urls \cup {"", ":", "1:2", "a.io/x", "ftp://a.io/x", "http://a.io/\n", "HTTP://x.com/cats"}

\* the page of the specification's Scenario E
ScenarioE == "<script>var x = {a:1};</script><p>Hello world, hello world, hello again.</p>"

\* a page whose noscript block holds a paragraph
NoscriptNotice == "Please enable JavaScript in the settings of this browser before the site is opened again, thanks a lot."
NoscriptPage == "<noscript><p>" \o NoscriptNotice \o "</p></noscript><p>cats cats</p>"

CatsPage == "<title>Cats</title><p>cats cats dogs dogs and more cats</p>"

\* pages with one boilerplate container inside another: a nav inside a nav,
\* and a nav inside a footer
NestedNavPage == "<nav>home<nav>sub sub</nav>birds birds</nav><p>cats cats</p>"
NavInFooterPage == "<footer>legal<nav>links links</nav>terms terms</footer><p>dogs dogs</p>"

\* the bodies a server answers with
Bodies == {
    "",
    CatsPage,
    ScenarioE,
    NoscriptPage,
    "<meta property=\"og:title\" content=\"Cats\"><meta name=\"description\" content=\"cats &amp;lt; dogs, cats &amp;lt; dogs\">",
    "<nav>menu menu</nav><p>" \o Sentence \o "</p>",
    NestedNavPage,
    NavInFooterPage,
    "<p>cats &lt;b&gt;cats&lt;/b&gt;</p>",
    "<p>dogs dogs</p><a href=\"x"}

Statuses == {200, 404}

\* the errors client.Do returns
TransportErrors == {"context deadline exceeded", "connection refused"}

AnInit ==
    /\ pc = "idle"
    /\ url = "" /\ html = "" /\ summary = "" /\ text = ""
    /\ keywords = NilSlice
    /\ RequestIdle /\ DecodeIdle /\ MetaIdle /\ ConcIdle /\ LocalsIdle /\ RefreshIdle
    /\ typed = 0 /\ runs = 0 /\ words = <<>> /\ wordCounts = <<>> /\ prevKeywords = NilSlice

\* analyzeURL(u) up to client.Do: http.NewRequest, then req.Header.Set, which
\* dereferences req
Call(u) ==
    /\ pc = "idle"
    /\ url' = u
    /\ req' = (IF NewRequest(u).nil THEN NilRequest ELSE [NewRequest(u) EXCEPT !.header = UserAgent])
    /\ pc' = (IF NewRequest(u).nil THEN "panicked" ELSE "sent")
    /\ UNCHANGED <<html, summary, kwVars, resp, result, err, requests, decVars, metaVars, concVars, localVars, refreshVars>>

\* client.Do returns an error: `return nil, err`
DoFails(e) ==
    /\ pc = "sent"
    /\ requests' = requests + 1
    /\ err' = e
    /\ result' = FailureResult(err')
    /\ pc' = "returned"
    /\ UNCHANGED <<html, url, summary, kwVars, req, resp, decVars, metaVars, concVars, localVars, refreshVars>>

\* the rest of analyzeURL with a test of the status code added
DoResponds_Mutant(status, body, n) ==
    /\ pc = "sent"
    /\ CanSend(req)
    /\ requests' = requests + 1
    /\ err' = ""
    /\ resp' = [status |-> status, body |-> body, read |-> n]
    /\ html' = (IF status = 200 THEN ReadBody(body, n) ELSE html)
    /\ summary' \in (IF status = 200 THEN generateSummary(html', url) ELSE {summary})
    /\ text' \in (IF status = 200 THEN extractText(html') ELSE {text})
    /\ keywords' \in (IF status = 200 THEN extractKeywords(text') ELSE {keywords})
    /\ result' = (IF status = 200 THEN [analysis |-> ContentAnalysis(summary', keywords'), err |-> ""]
                                 ELSE FailureResult("unexpected status"))
    /\ pc' = "returned"
    /\ UNCHANGED <<url, req, typed, runs, words, wordCounts, prevKeywords, decVars, metaVars, concVars, localVars, refreshVars>>

\* client.Do returns a response, whose body delivers n bytes: the rest of analyzeURL
DoResponds(status, body, n) ==
    /\ pc = "sent"
    /\ CanSend(req)
    /\ requests' = requests + 1
    /\ err' = ""
    /\ resp' = [status |-> status, body |-> body, read |-> n]
    /\ html' = ReadBody(body, n)
    /\ summary' \in generateSummary(html', url)
    /\ text' \in extractText(html')
    /\ keywords' \in extractKeywords(text')
    /\ result' = [analysis |-> ContentAnalysis(summary', keywords'), err |-> ""]
    /\ pc' = "returned"
    /\ UNCHANGED <<url, req, typed, runs, words, wordCounts, prevKeywords, decVars, metaVars, concVars, localVars, refreshVars>>

AnNext ==
    \/ \E u \in CallUrls : Call(u)
    \/ \E e \in TransportErrors : DoFails(e)
    \/ \E status \in Statuses, body \in Bodies :
        \E n \in {0, GoLen(body) \div 2, GoLen(body)} : DoResponds(status, body, n)

SpecAnalyze == AnInit /\ [][AnNext]_vars

-----------------------------------------------------------------------------
(* Specification of decodeHTMLEntities *)

\* the pieces the texts handed to decodeHTMLEntities are made of, joined
\* without separators
EntityPieces == {"&amp;", "amp;", "&lt;", "lt;", "&nbsp;", "&#1", "2;", "apos", "a"}

DecInit ==
    /\ text = "" /\ typed = 0 /\ runs = 0
    /\ words = <<>> /\ wordCounts = <<>> /\ keywords = NilSlice /\ prevKeywords = NilSlice
    /\ SummaryIdle /\ RequestIdle /\ DecodeIdle /\ MetaIdle /\ ConcIdle /\ LocalsIdle /\ RefreshIdle

\* the environment extends the text, before the first call
TypeEntity(p) ==
    /\ runs = 0
    /\ typed < MaxChunks
    /\ text' = text \o p
    /\ typed' = typed + 1
    /\ UNCHANGED <<runs, words, wordCounts, keywords, prevKeywords, sumVars, reqVars, decVars, metaVars, concVars, localVars, refreshVars>>

\* the call decodeHTMLEntities(text)
Decode ==
    /\ runs = 0
    /\ decoded' \in decodeHTMLEntities(text)
    /\ runs' = 1
    /\ UNCHANGED <<text, typed, words, wordCounts, keywords, prevKeywords, redecoded, sumVars, reqVars, metaVars, concVars, localVars, refreshVars>>

\* the call decodeHTMLEntities(decoded), on the value the first call returned
DecodeAgain ==
    /\ runs = 1
    /\ redecoded' \in decodeHTMLEntities(decoded)
    /\ runs' = 2
    /\ UNCHANGED <<text, typed, words, wordCounts, keywords, prevKeywords, decoded, sumVars, reqVars, metaVars, concVars, localVars, refreshVars>>

DecNext ==
    \/ \E p \in EntityPieces : TypeEntity(p)
    \/ Decode
    \/ DecodeAgain

SpecDecode == DecInit /\ [][DecNext]_vars

-----------------------------------------------------------------------------
(* Specification of analyzeURL calls that run concurrently (one goroutine   *)
(* per request of HandleAnalyzeURL).  Every call has its own locals; the    *)
(* package-level variable stopWords is the only state the calls share.      *)

\* the locals of a call that has not started
IdleCall ==
    [pc |-> "idle", url |-> "", err |-> "", html |-> "", summary |-> "", text |-> "",
     keywords |-> NilSlice, result |-> NoResult]

\* the urls the concurrent calls are made with, and the bodies served
ConcUrls == {"https://a.io/post"}
ConcBodies == {"<p>the the cats cats</p>", "<p>page page dogs dogs</p>"}

ConcInit ==
    /\ calls = [c \in 1..MaxCalls |-> IdleCall]
    /\ globals = [stopWords |-> stopWords]
    /\ KeywordsIdle /\ SummaryIdle /\ RequestIdle /\ DecodeIdle /\ MetaIdle
    /\ LocalsIdle /\ RefreshIdle

\* call c: http.NewRequest, req.Header.Set and the start of client.Do
Begin(c, u) ==
    /\ calls[c].pc = "idle"
    /\ calls' = [calls EXCEPT ![c].url = u,
                              ![c].pc = IF NewRequest(u).nil THEN "panicked" ELSE "sent"]
    /\ UNCHANGED <<globals, kwVars, sumVars, reqVars, decVars, metaVars, localVars, refreshVars>>

\* call c: client.Do returns an error, `return nil, err`
Fail(c, e) ==
    /\ calls[c].pc = "sent"
    /\ calls' = [calls EXCEPT ![c].err = e, ![c].result = FailureResult(e), ![c].pc = "returned"]
    /\ UNCHANGED <<globals, kwVars, sumVars, reqVars, decVars, metaVars, localVars, refreshVars>>

\* call c: client.Do returns a response and the body is read
Read(c, body) ==
    /\ calls[c].pc = "sent"
    /\ CanSend(NewRequest(calls[c].url))
    /\ calls' = [calls EXCEPT ![c].html = ReadBody(body, GoLen(body)), ![c].pc = "read"]
    /\ UNCHANGED <<globals, kwVars, sumVars, reqVars, decVars, metaVars, localVars, refreshVars>>

\* call c: `summary := generateSummary(html, url)`
Summarize(c) ==
    /\ calls[c].pc = "read"
    /\ \E s \in generateSummary(calls[c].html, calls[c].url) :
          calls' = [calls EXCEPT ![c].summary = s, ![c].pc = "summarized"]
    /\ UNCHANGED <<globals, kwVars, sumVars, reqVars, decVars, metaVars, localVars, refreshVars>>

\* call c: `text := extractText(html)`
Extract(c) ==
    /\ calls[c].pc = "summarized"
    /\ \E t \in extractText(calls[c].html) :
          calls' = [calls EXCEPT ![c].text = t, ![c].pc = "extracted"]
    /\ UNCHANGED <<globals, kwVars, sumVars, reqVars, decVars, metaVars, localVars, refreshVars>>

\* call c ranks its keywords and adds the words it counted to stopWords
Rank_Mutant(c) ==
    /\ calls[c].pc = "extracted"
    /\ \E k \in extractKeywordsIn(globals.stopWords, calls[c].text) :
          calls' = [calls EXCEPT ![c].keywords = k, ![c].pc = "ranked"]
    /\ globals' = [globals EXCEPT !.stopWords =
                      @ \cup DOMAIN CountWordsIn(globals.stopWords, FieldsFunc(ToLower(calls[c].text)))]
    /\ UNCHANGED <<kwVars, sumVars, reqVars, decVars, metaVars, localVars, refreshVars>>

\* call c: `keywords := extractKeywords(text)`, which reads stopWords
Rank(c) ==
    /\ calls[c].pc = "extracted"
    /\ \E k \in extractKeywordsIn(globals.stopWords, calls[c].text) :
          calls' = [calls EXCEPT ![c].keywords = k, ![c].pc = "ranked"]
    /\ UNCHANGED <<globals, kwVars, sumVars, reqVars, decVars, metaVars, localVars, refreshVars>>

\* call c: `return &ContentAnalysis{...}, nil`
Return(c) ==
    /\ calls[c].pc = "ranked"
    /\ calls' = [calls EXCEPT
                    ![c].result = [analysis |-> ContentAnalysis(calls[c].summary, calls[c].keywords),
                                   err |-> ""],
                    ![c].pc = "returned"]
    /\ UNCHANGED <<globals, kwVars, sumVars, reqVars, decVars, metaVars, localVars, refreshVars>>

ConcNext ==
    \E c \in 1..MaxCalls :
        \/ \E u \in ConcUrls : Begin(c, u)
        \/ \E e \in TransportErrors : Fail(c, e)
        \/ \E body \in ConcBodies : Read(c, body)
        \/ Summarize(c)
        \/ Extract(c)
        \/ Rank(c)
        \/ Return(c)

SpecConc == ConcInit /\ [][ConcNext]_vars

-----------------------------------------------------------------------------
(* Specification of extractMetaContent *)

\* a meta element: the attribute that names it, whether that attribute or
\* content= comes first, the name, the content and the quote character that
\* delimits the content
MetaElements == {
    [attr |-> "property", first |-> "attr",    key |-> "og:title",    value |-> "Prop",              quote |-> "\""],
    [attr |-> "property", first |-> "content", key |-> "og:title",    value |-> "PropLate",          quote |-> "\""],
    [attr |-> "name",     first |-> "attr",    key |-> "og:title",    value |-> "Name",              quote |-> "\""],
    [attr |-> "name",     first |-> "content", key |-> "og:title",    value |-> "NameLate",          quote |-> "\""],
    [attr |-> "name",     first |-> "attr",    key |-> "description", value |-> " Cats &amp; dogs ", quote |-> "\""],
    [attr |-> "property", first |-> "attr",    key |-> "description", value |-> " ",                 quote |-> "\""],
    [attr |-> "property", first |-> "content", key |-> "OG:Title",    value |-> "Upper",             quote |-> "\""],
    [attr |-> "name",     first |-> "attr",    key |-> "author",      value |-> "Ann O'Hara",        quote |-> "\""],
    [attr |-> "name",     first |-> "content", key |-> "author",      value |-> "Bob \"Bo\" Lee",     quote |-> "'"],
    [attr |-> "name",     first |-> "attr",    key |-> "author",      value |-> "Cy Young",          quote |-> "'"]}

\* the markup of a meta element
Render(e) ==
    IF e.first = "attr"
    THEN "<meta " \o e.attr \o "=\"" \o e.key \o "\" content=" \o e.quote \o e.value \o e.quote \o ">"
    ELSE "<meta content=" \o e.quote \o e.value \o e.quote \o " " \o e.attr \o "=\"" \o e.key \o "\">"

\* the names extractMetaContent is called with
MetaNames == {"og:title", "description", "author"}

MetaInit ==
    /\ html = "" /\ url = "" /\ summary = "" /\ pc = "input"
    /\ KeywordsIdle /\ RequestIdle /\ DecodeIdle /\ MetaIdle /\ ConcIdle /\ LocalsIdle /\ RefreshIdle

\* the environment extends the document, before the call
AddMeta(e) ==
    /\ pc = "input"
    /\ typed < MaxFragments
    /\ html' = html \o Render(e)
    /\ typed' = typed + 1
    /\ UNCHANGED <<url, summary, pc, text, runs, words, wordCounts, keywords, prevKeywords, reqVars, decVars, metaVars, concVars, localVars, refreshVars>>

\* the call extractMetaContent(html, n)
ExtractMetaContent(n) ==
    /\ pc = "input"
    /\ metaName' = n
    /\ metaContent' \in extractMetaContent(html, n)
    /\ pc' = "returned"
    /\ UNCHANGED <<html, url, summary, kwVars, reqVars, decVars, concVars, localVars, refreshVars>>

MetaNext ==
    \/ \E e \in MetaElements : AddMeta(e)
    \/ \E n \in MetaNames : ExtractMetaContent(n)

SpecMeta == MetaInit /\ [][MetaNext]_vars

-----------------------------------------------------------------------------
(* Specification of extractFirstParagraph *)

Blank == "                                                            "

\* the texts of the <p> elements
GoodText == Sentence
LongParagraph == LongDescription
EntityText == "Cats &amp; dogs. " \o Sentence
FunctionText == "function init() " \o Sentence
BraceText == Sentence \o " {a:1}"
VarText == "var x = 1; " \o Sentence
BlankText == Blank \o "Only a few words come after the blank." \o Blank
TinyText == "A short paragraph."

\* a piece of a document: some <p> elements, inside an <article> element or not
ParagraphPieces == {
    [article |-> FALSE, paras |-> <<GoodText>>],
    [article |-> FALSE, paras |-> <<LongParagraph>>],
    [article |-> FALSE, paras |-> <<FunctionText>>],
    [article |-> FALSE, paras |-> <<FunctionText, BraceText, VarText, BlankText, FunctionText>>],
    [article |-> FALSE, paras |-> <<TinyText>>],
    [article |-> TRUE,  paras |-> <<VarText>>],
    [article |-> TRUE,  paras |-> <<BraceText, EntityText>>],
    [article |-> TRUE,  paras |-> <<TinyText>>]}

RECURSIVE RenderParagraphs(_, _)
RenderParagraphs(paras, i) ==
    IF i > Len(paras) THEN "" ELSE "<p>" \o paras[i] \o "</p>" \o RenderParagraphs(paras, i + 1)

\* the markup of a piece
RenderPiece(p) ==
    IF p.article THEN "<article>" \o RenderParagraphs(p.paras, 1) \o "</article>"
    ELSE RenderParagraphs(p.paras, 1)

ParaInit ==
    /\ html = "" /\ url = "" /\ summary = "" /\ pc = "input"
    /\ KeywordsIdle /\ RequestIdle /\ DecodeIdle /\ MetaIdle /\ ConcIdle /\ LocalsIdle /\ RefreshIdle

\* the call extractFirstParagraph(html)
ExtractFirstParagraph ==
    /\ pc = "input"
    /\ paragraph' \in extractFirstParagraph(html)
    /\ pc' = "returned"
    /\ UNCHANGED <<html, url, summary, kwVars, reqVars, decVars, metaVars, concVars, locals, refreshVars>>

ParaNext ==
    \/ \E p \in ParagraphPieces : AddFragment(RenderPiece(p))
    \/ ExtractFirstParagraph

SpecParagraph == ParaInit /\ [][ParaNext]_vars

-----------------------------------------------------------------------------
(* HandleAnalyzeBookmark *)

\* a nullable TEXT column, a *string in Go
Null == [null |-> TRUE, text |-> ""]
Text(s) == [null |-> FALSE, text |-> s]

\* `func strPtr(s string) *string`: nil for the empty string
strPtr(s) == IF s = "" THEN Null ELSE Text(s)

RECURSIVE MarshalElems(_, _)
\* the elements of a []string as JSON, from the i-th on (keywords are runs of
\* letters and digits, which JSON does not escape)
MarshalElems(elems, i) ==
    IF i > Len(elems) THEN ""
    ELSE "\"" \o elems[i] \o "\"" \o (IF i < Len(elems) THEN "," ELSE "") \o MarshalElems(elems, i + 1)

\* json.Marshal of a []string: null for the nil slice
Marshal(k) == IF k.nil THEN "null" ELSE "[" \o MarshalElems(k.elems, 1) \o "]"

\* strconv.ParseInt(r.PathValue("id"), 10, 64) with the error dropped, for a
\* path value of one character: 0 for a value that is no number
ParseId(v) == IF AllDigits(v) /\ Len(v) = 1 THEN DigitValue(v) ELSE 0

\* the results analyzeURL(u) can return when the server answers with page
Analyses(page, u) ==
    {[analysis |-> ContentAnalysis(s, k), err |-> ""] :
        s \in generateSummary(page, u),
        k \in UNION {extractKeywords(t) : t \in extractText(page)}}

NoRow == [url |-> "", summary |-> Null, keywords |-> Null]

\* the locals of a call of HandleAnalyzeBookmark, the reply written (status 0:
\* none) and the number of fetches and of UPDATE statements that changed a row
IdleHandler ==
    [pc |-> "idle", id |-> 0, bookmark |-> NoRow, result |-> NoResult, keywordsJSON |-> "",
     updated |-> NoRow, status |-> 0, message |-> "", keywords |-> NilSlice,
     fetches |-> 0, writes |-> 0]

-----------------------------------------------------------------------------
(* Specification of HandleAnalyzeBookmark *)

\* the values of the path parameter id
PathValues == {"1", "2", "3", "4", "x"}

\* the ids of the rows of the table, and their urls
BookmarkIds == {1, 2, 3}

BookmarkUrl(i) == IF i = 1 THEN "https://a.io/post" ELSE IF i = 2 THEN ":" ELSE "https://github.com/a/b"

\* the pages the bookmarked sites answer with
RefreshBodies == {"", CatsPage, "<p>function cats cats</p>"}

\* the rows of the table when the request arrives
RefreshInit ==
    /\ store = [i \in BookmarkIds |->
                   [url |-> BookmarkUrl(i),
                    summary |-> Text("An old summary."),
                    keywords |-> Text("[\"old\"]")]]
    /\ handler = IdleHandler
    /\ KeywordsIdle /\ SummaryIdle /\ RequestIdle /\ DecodeIdle /\ MetaIdle /\ ConcIdle
    /\ LocalsIdle

\* the handler up to the call of analyzeURL: the id is parsed and the row read
GetBookmark(v) ==
    /\ handler.pc = "idle"
    /\ handler' =
          IF ParseId(v) \in DOMAIN store
          THEN [handler EXCEPT !.pc = "analyze", !.id = ParseId(v), !.bookmark = store[ParseId(v)]]
          ELSE [handler EXCEPT !.pc = "done", !.id = ParseId(v),
                               !.status = 404, !.message = "bookmark not found"]
    /\ UNCHANGED <<store, kwVars, sumVars, reqVars, decVars, metaVars, concVars, localVars>>

\* analyzeURL panics on the nil request: the handler ends without a reply
AnalyzePanics ==
    /\ handler.pc = "analyze"
    /\ NewRequest(handler.bookmark.url).nil
    /\ handler' = [handler EXCEPT !.pc = "panicked"]
    /\ UNCHANGED <<store, kwVars, sumVars, reqVars, decVars, metaVars, concVars, localVars>>

\* the handler saving an empty analysis when analyzeURL returns an error
AnalyzeFails_Mutant(e) ==
    /\ handler.pc = "analyze"
    /\ ~NewRequest(handler.bookmark.url).nil
    /\ handler' = [handler EXCEPT !.pc = "done", !.result = FailureResult(e),
                                  !.fetches = @ + 1,
                                  !.status = 500, !.message = "failed to analyze: " \o e]
    /\ store' = IF handler.id \in DOMAIN store
                THEN [store EXCEPT ![handler.id].summary = Text(""), ![handler.id].keywords = Text("null")]
                ELSE store
    /\ UNCHANGED <<kwVars, sumVars, reqVars, decVars, metaVars, concVars, localVars>>

\* analyzeURL returns an error: the reply is 500
AnalyzeFails(e) ==
    /\ handler.pc = "analyze"
    /\ ~NewRequest(handler.bookmark.url).nil
    /\ handler' = [handler EXCEPT !.pc = "done", !.result = FailureResult(e),
                                  !.fetches = @ + 1,
                                  !.status = 500, !.message = "failed to analyze: " \o e]
    /\ UNCHANGED <<store, kwVars, sumVars, reqVars, decVars, metaVars, concVars, localVars>>

\* analyzeURL returns an analysis, and the keywords are serialized
AnalyzeReturns(page) ==
    /\ handler.pc = "analyze"
    /\ ~NewRequest(handler.bookmark.url).nil
    /\ \E r \in Analyses(page, handler.bookmark.url) :
          handler' = [handler EXCEPT !.pc = "save", !.result = r, !.fetches = @ + 1,
                                     !.keywordsJSON = Marshal(r.analysis.Keywords)]
    /\ UNCHANGED <<store, kwVars, sumVars, reqVars, decVars, metaVars, concVars, localVars>>

\* UpdateBookmarkAnalysis returns the row it changed, and the reply is written;
\* when the row is gone it returns sql.ErrNoRows and the reply is 500
SaveAnalysis ==
    /\ handler.pc = "save"
    /\ IF handler.id \in DOMAIN store
       THEN /\ store' = [store EXCEPT ![handler.id].summary = Text(handler.result.analysis.Summary),
                                      ![handler.id].keywords = strPtr(handler.keywordsJSON)]
            /\ handler' = [handler EXCEPT !.pc = "done", !.updated = store'[handler.id],
                                          !.writes = @ + 1, !.status = 200,
                                          !.keywords = handler.result.analysis.Keywords]
       ELSE /\ store' = store
            /\ handler' = [handler EXCEPT !.pc = "done", !.status = 500,
                              !.message = "failed to save: sql: no rows in result set"]
    /\ UNCHANGED <<kwVars, sumVars, reqVars, decVars, metaVars, concVars, localVars>>

\* UpdateBookmarkAnalysis returns another error and changes nothing
SaveFails ==
    /\ handler.pc = "save"
    /\ handler' = [handler EXCEPT !.pc = "done", !.status = 500,
                                  !.message = "failed to save: database is locked"]
    /\ UNCHANGED <<store, kwVars, sumVars, reqVars, decVars, metaVars, concVars, localVars>>

\* another request deletes a bookmark (HandleDeleteBookmark)
DeleteBookmark(i) ==
    /\ i \in DOMAIN store
    /\ store' = [j \in DOMAIN store \ {i} |-> store[j]]
    /\ UNCHANGED <<handler, kwVars, sumVars, reqVars, decVars, metaVars, concVars, localVars>>

RefreshNext ==
    \/ \E v \in PathValues : GetBookmark(v)
    \/ AnalyzePanics
    \/ \E e \in TransportErrors : AnalyzeFails(e)
    \/ \E page \in RefreshBodies : AnalyzeReturns(page)
    \/ SaveAnalysis
    \/ SaveFails
    \/ \E i \in BookmarkIds : DeleteBookmark(i)

SpecRefresh == RefreshInit /\ [][RefreshNext]_vars

-----------------------------------------------------------------------------
(* Claims about extractKeywords *)

\* a call has returned
Returned == runs >= 1

\* the returned list
Kw == keywords.elems

\* occurrences of k among the tokens of the lower-cased text
Occurrences(k) == Cardinality({i \in 1..Len(words) : words[i] = k})

\* the position of the first occurrence of k among the tokens
FirstSeen(k) == CHOOSE i \in 1..Len(words) : words[i] = k /\ \A j \in 1..(i - 1) : words[j] # k

\* the tokens that survived the filters and occur at least twice
Qualifying == {k \in DOMAIN wordCounts : wordCounts[k] >= 2}

\* C4: two calls on the identical text return the identical list in the
\* identical order
C4_Deterministic == runs >= 2 => keywords = prevKeywords

\* C5: keywords with equal counts appear in the order of their first occurrence
\* in the text
C5_TiesByFirstOccurrence ==
    Returned =>
        \A i, j \in 1..Len(Kw) :
            (i < j /\ Occurrences(Kw[i]) = Occurrences(Kw[j])) => FirstSeen(Kw[i]) < FirstSeen(Kw[j])

\* C6: the returned list has at most 15 entries and holds no string twice
C6_AtMost15Unique ==
    Returned =>
        /\ Len(Kw) <= 15
        /\ \A i, j \in 1..Len(Kw) : i # j => Kw[i] # Kw[j]

\* more than 15 tokens qualified and the list was cut to 15
C6_Witness == Returned /\ Cardinality(Qualifying) > 15 /\ Len(Kw) = 15

\* C7: every returned keyword has a length (Go's len) between 3 and 25
C7_LengthRange == Returned => \A i \in 1..Len(Kw) : GoLen(Kw[i]) >= 3 /\ GoLen(Kw[i]) <= 25

\* a 25-byte token is returned from a text that also holds a 2-byte token
C7_Witness ==
    /\ Returned
    /\ \E i \in 1..Len(Kw) : GoLen(Kw[i]) = 25
    /\ \E i \in 1..Len(words) : GoLen(words[i]) < 3

\* C8: no returned keyword is a stop word or a markup/code term, or has more
\* than half of its characters being digits
C8_Filtered ==
    Returned =>
        \A i \in 1..Len(Kw) :
            /\ Kw[i] \notin stopWords
            /\ Kw[i] \notin codeWords
            /\ ~(2 * NumCount(Kw[i]) > Len(Kw[i]))

\* C9: every returned keyword occurs at least twice among the tokens of the
\* lower-cased text
C9_AtLeastTwice == Returned => \A i \in 1..Len(Kw) : Occurrences(Kw[i]) >= 2

\* Scenario B: "cats" and "dogs" are returned, "birds" (one occurrence) is not
C9_Witness ==
    /\ Returned
    /\ text = ScenarioB
    /\ Occurrences("birds") = 1
    /\ Kw = <<"cats", "dogs">>

\* C10: the list is ordered by non-increasing count, and no qualifying token
\* left out has a strictly greater count than a returned one
C10_TopByCount ==
    Returned =>
        /\ \A i, j \in 1..Len(Kw) : i < j => Occurrences(Kw[i]) >= Occurrences(Kw[j])
        /\ \A q \in Qualifying : \A i \in 1..Len(Kw) :
               (\A j \in 1..Len(Kw) : Kw[j] # q) => Occurrences(q) <= Occurrences(Kw[i])

\* sixteen tokens qualify: the one of the greatest count comes first and one of
\* the two of the least count is left out
C10_Witness ==
    /\ Returned
    /\ Cardinality(Qualifying) = 16
    /\ Kw[1] = "emu"
    /\ \E q \in Qualifying : Occurrences(q) = 2 /\ \A j \in 1..Len(Kw) : Kw[j] # q

-----------------------------------------------------------------------------
(* Properties of generateSummary and analyzeURL *)

\* C1: generateSummary never returns the empty string, whatever the html and
\* the url are
C1_NeverEmpty == pc = "returned" => summary # ""

\* the safety net emptied the summary of a document with a description, and
\* the terminal fallback replaced it
C1_Witness ==
    /\ pc = "returned"
    /\ Contains(html, "var x")
    /\ summary = NoDescription

\* C2: the string generateSummary returns contains none of the markers
\* "function", "window.", "{", "var ", "ytcfg", "ytplayer", also when the
\* safety net rebuilt it from the site name and the title
C2_NoMarker == pc = "returned" => ~HasMarker(summary)

\* C3: analyzeURL returns an analysis or an error for every url and never
\* panics: the request http.NewRequest returned is never dereferenced when nil
C3_NeverPanics == pc # "panicked"

-----------------------------------------------------------------------------
(* Claims about the script-leak guard of extractKeywords *)

\* C11: a text that contains "function" or "window." anywhere gives the empty
\* list, whatever other tokens it holds
C11_CodeGuard ==
    (Returned /\ (Contains(text, "function") \/ Contains(text, "window."))) => Len(Kw) = 0

\* the text holds "window." next to a token that occurs twice and would
\* otherwise be returned, and the call returned the empty list
C11_Witness ==
    /\ Returned
    /\ Contains(text, "window.")
    /\ ~Contains(text, "function")
    /\ \E w \in {"cats", "dogs"} : Cardinality({i \in 1..Len(FieldsFunc(ToLower(text))) : FieldsFunc(ToLower(text))[i] = w}) >= 2
    /\ Len(Kw) = 0

-----------------------------------------------------------------------------
(* Claims about decodeHTMLEntities *)

\* s holds an entity: one of the table, or `&#` digits `;`
HoldsEntity(s) ==
    \/ \E i \in 1..13 : Contains(s, <<"&nbsp;", "&amp;", "&lt;", "&gt;", "&quot;", "&#39;", "&apos;",
                                     "&mdash;", "&ndash;", "&hellip;", "&copy;", "&reg;", "&trade;">>[i])
    \/ \E k \in 1..Len(s) :
          /\ HasAt(s, k, "&#")
          /\ \E e \in (k + 3)..Len(s) :
                /\ At(s, e) = ";"
                /\ \A j \in (k + 2)..(e - 1) : At(s, j) \in {"0", "1", "2", "3", "4", "5", "6", "7", "8", "9"}

\* C12 as stated: decoding the decoded value again gives the same value, for
\* every text
C12_Idempotent == runs = 2 => redecoded = decoded

\* C12 as amended: when the decoded value holds no entity, decoding it again
\* gives the same value
C12_IdempotentOnceDecoded == (runs = 2 /\ ~HoldsEntity(decoded)) => redecoded = decoded

\* a text with entities was decoded to a value without any, and the second
\* call returned that value
C12_Witness ==
    /\ runs = 2
    /\ Contains(text, "&lt;") /\ Contains(text, "&#12;")
    /\ ~HoldsEntity(decoded)
    /\ redecoded = decoded

\* the entry of the table whose entity starts at position k of s, 0 when none does
NamedEntityAt(s, k) ==
    IF \E i \in 1..Len(replacements) : HasAt(s, k, replacements[i][1])
    THEN CHOOSE i \in 1..Len(replacements) : HasAt(s, k, replacements[i][1])
    ELSE 0

RECURSIVE DecodedOnce(_, _)
\* s from position k on with every entity occurrence of s decoded once, in one
\* pass from left to right: what a substitution produces is not looked at again
DecodedOnce(s, k) ==
    IF k > Len(s) THEN ""
    ELSE IF NamedEntityAt(s, k) > 0
    THEN replacements[NamedEntityAt(s, k)][2]
            \o DecodedOnce(s, k + Len(replacements[NamedEntityAt(s, k)][1]))
    ELSE IF NumericEntityEnd(s, k) > 0
    THEN " " \o DecodedOnce(s, NumericEntityEnd(s, k) + 1)
    ELSE At(s, k) \o DecodedOnce(s, k + 1)

\* C13: every entity occurrence of the text is decoded exactly once, nothing a
\* substitution produced is decoded again ("&amp;lt;" gives "&lt;", never "<"),
\* and so the value returned does not depend on the order the table is ranged over
C13_DecodedOnce == runs >= 1 => decoded = DecodedOnce(text, 1)

-----------------------------------------------------------------------------
(* Claims about analyzeURL and extractText *)

\* the call of analyzeURL returned after client.Do gave a response
Responded == pc = "returned" /\ err = ""

\* the call of analyzeURL returned after client.Do gave an error
Failed == pc = "returned" /\ err # ""

\* C14: the text extractText returns holds no "<" that a letter or "/" follows
C14_NoTagStart ==
    Responded =>
        \A k \in 1..(Len(text) - 1) :
            At(text, k) = "<" => ~(IsLetter(At(text, k + 1)) \/ At(text, k + 1) = "/")

\* C15: after a transport failure analyzeURL returns no ContentAnalysis and the
\* very error client.Do gave; client.Do was called once and no extraction ran
C15_FailureVerbatim ==
    Failed =>
        /\ result.analysis.nil
        /\ result.err = err
        /\ requests = 1
        /\ resp = NoResponse
        /\ html = "" /\ summary = "" /\ text = "" /\ keywords = NilSlice

\* client.Do failed with "connection refused" for a url that parses
C15_Witness ==
    /\ Failed
    /\ ~req.nil
    /\ err = "connection refused"
    /\ result.err = "connection refused"

\* the keywords of the analysis returned, as a set
ReturnedKeywords == {result.analysis.Keywords.elems[i] : i \in 1..Len(result.analysis.Keywords.elems)}

BlockText(body) ==
    IF body = ScenarioE THEN {"var x", "{a:1}"}
    ELSE IF body = NoscriptPage THEN {"enable JavaScript"}
    ELSE {}

\* C17: when the whole page arrived, nothing that stands inside one of its
\* script, style or noscript blocks shows in the text, the keywords or the
\* summary; for Scenario E the keywords hold "hello" and not "script"
C17_BlocksHidden ==
    (Responded /\ html = resp.body) =>
        /\ \A h \in BlockText(html) :
              /\ ~Contains(text, h)
              /\ ~Contains(summary, h)
              /\ \A k \in ReturnedKeywords : ~Contains(h, k)
        /\ html = ScenarioE => ("hello" \in ReturnedKeywords /\ "script" \notin ReturnedKeywords)

-----------------------------------------------------------------------------
(* Claims about the platform fallback of generateSummary *)

\* the titles of the pages whose only metadata is og:title
VideoTitles == {"Cats", "Intro to function calls"}

\* the url names YouTube
IsYouTube(u) == Contains(ToLower(u), "youtube.com") \/ Contains(ToLower(u), "youtu.be")

\* s holds one of the strings the final cleanup of generateSummary looks for
HoldsMarker(s) == \E k \in {"function", "window.", "{", "var ", "ytcfg", "ytplayer"} : Contains(s, k)

\* C18 as stated: for a YouTube url and a page whose only metadata is
\* og:title = T, the summary is "YouTube video: " followed by T
C18_YouTubeTitle ==
    \A T \in VideoTitles :
        (pc = "returned" /\ IsYouTube(url) /\ html = OgTitle(T)) => summary = "YouTube video: " \o T

\* C18 as amended: the same, for a title T in which the final cleanup finds
\* no marker
C18_YouTubeTitleNoMarker ==
    \A T \in VideoTitles :
        (pc = "returned" /\ IsYouTube(url) /\ html = OgTitle(T) /\ ~HoldsMarker(T))
            => summary = "YouTube video: " \o T

\* the page titled "Cats" at a youtube.com url written with capitals
C18_Witness ==
    /\ pc = "returned"
    /\ url = "https://www.YouTube.com/watch?v=1"
    /\ html = OgTitle("Cats")
    /\ summary = "YouTube video: Cats"

-----------------------------------------------------------------------------
(* Claims about concurrent calls *)

\* C19: under every interleaving of the steps of concurrent analyzeURL calls
\* the package-level stopWords keeps the value it was initialised with, and
\* what a call returns is what a call running alone on the same page returns
C19_NoSharedWrites ==
    /\ globals = [stopWords |-> stopWords]
    /\ \A c \in DOMAIN calls :
          (calls[c].pc = "returned" /\ calls[c].err = "") =>
              /\ calls[c].result.analysis.Summary \in generateSummary(calls[c].html, calls[c].url)
              /\ calls[c].result.analysis.Keywords \in
                    UNION {extractKeywords(t) : t \in extractText(calls[c].html)}
              /\ calls[c].html = "<p>the the cats cats</p>" =>
                    calls[c].result.analysis.Keywords = Slice(<<"cats">>)
              /\ calls[c].html = "<p>page page dogs dogs</p>" =>
                    calls[c].result.analysis.Keywords = Slice(<<"dogs">>)

\* two calls on the same page ran interleaved: the second ranked its keywords
\* after the first had ranked its own and before the first returned, and both
\* returned the keywords of the page
C19_Witness ==
    /\ calls[1].pc = "ranked"
    /\ calls[2].pc = "returned"
    /\ calls[1].html = "<p>the the cats cats</p>"
    /\ calls[2].html = "<p>the the cats cats</p>"
    /\ calls[1].keywords = Slice(<<"cats">>)
    /\ calls[2].result.analysis.Keywords = Slice(<<"cats">>)

-----------------------------------------------------------------------------
(* Claims about extractMetaContent *)

\* the documents of at most MaxFragments meta elements
MetaDocuments == UNION {[1..n -> MetaElements] : n \in 0..MaxFragments}

RECURSIVE RenderAll(_, _)
RenderAll(d, i) == IF i > Len(d) THEN "" ELSE Render(d[i]) \o RenderAll(d, i + 1)

\* the place of the pattern that matches element e in the priority order
PatternRank(e) ==
    IF e.attr = "property" THEN (IF e.first = "attr" THEN 1 ELSE 2)
    ELSE (IF e.first = "attr" THEN 3 ELSE 4)

\* the elements of d that one of the four patterns for name n matches
\* (the patterns ignore case)
Named(d, n) == {i \in 1..Len(d) : ToLower(d[i].key) = ToLower(n)}

\* the element whose content the claim says is returned: of the elements the
\* pattern of the highest priority matches, the first of the document
Winner(d, n) ==
    CHOOSE i \in Named(d, n) :
        \A j \in Named(d, n) :
            \/ PatternRank(d[i]) < PatternRank(d[j])
            \/ (PatternRank(d[i]) = PatternRank(d[j]) /\ i <= j)

\* the capture ([^"']+) of the content of the elements, decoded and trimmed
Cleaned(v) ==
    IF v = " Cats &amp; dogs " THEN "Cats & dogs"
    ELSE IF v = " " THEN ""
    ELSE IF v = "Ann O'Hara" THEN "Ann O"
    ELSE IF v = "Bob \"Bo\" Lee" THEN "Bob"
    ELSE v

\* C20 as stated: the capture of the first pattern that matches, in the order
\* property-first, content-property, name-first, content-name, trimmed and
\* decoded; the empty string exactly when no pattern matches
C20_FirstPattern ==
    pc = "returned" =>
        \A d \in MetaDocuments :
            html = RenderAll(d, 1) =>
                /\ Named(d, metaName) # {} => metaContent = Cleaned(d[Winner(d, metaName)].value)
                /\ metaContent = "" <=> Named(d, metaName) = {}

\* C20 as amended: the same capture, and the empty string when no pattern
\* matches (a capture that is blank once decoded also gives the empty string)
C20_FirstPatternOrNone ==
    pc = "returned" =>
        \A d \in MetaDocuments :
            html = RenderAll(d, 1) =>
                /\ Named(d, metaName) # {} => metaContent = Cleaned(d[Winner(d, metaName)].value)
                /\ Named(d, metaName) = {} => metaContent = ""

\* a name= element stands before a property= element of the same name, and the
\* content of the property= element was returned
C20_Witness ==
    /\ pc = "returned"
    /\ metaName = "og:title"
    /\ \E d \in MetaDocuments :
          /\ html = RenderAll(d, 1)
          /\ Len(d) = 2
          /\ d[1].attr = "name" /\ d[2].attr = "property"
          /\ metaContent = d[2].value

-----------------------------------------------------------------------------
(* Claims about the value of the content attribute *)

\* the complete value of the content attribute of the elements, decoded and
\* trimmed
WholeValue(v) ==
    IF v = " Cats &amp; dogs " THEN "Cats & dogs"
    ELSE IF v = " " THEN ""
    ELSE v

\* C21: for a document of one meta element that carries the name asked for
\* and a non-empty content attribute, in either attribute order and with
\* either quote character, extractMetaContent returns the complete value
\* between the delimiting quotes, trimmed and decoded, never cut at an
\* inner quote character
C21_CompleteValue ==
    pc = "returned" =>
        \A e \in MetaElements :
            (html = Render(e) /\ e.key = metaName) => metaContent = WholeValue(e.value)
-----------------------------------------------------------------------------
(* Claims about the description generateSummary uses *)

OgDescription(d) == MetaTag("property", "og:description", d)

MetaDescription == MetaTag("name", "description", "All about cats.")

TwitterDescription == "<meta content=\"Short\" name=\"twitter:description\">"

\* the piece occurs in the document
Present(piece) == IndexFrom(html, piece, 1) > 0

\* the og:description elements of the document, and the value of the first
OgPresent == {d \in Descriptions : Present(OgDescription(d))}

FirstOg ==
    CHOOSE d \in OgPresent :
        \A e \in OgPresent : IndexFrom(html, OgDescription(d), 1) <= IndexFrom(html, OgDescription(e), 1)

\* the first non-empty value in the order og:description, meta description,
\* twitter:description
FirstDescription ==
    IF OgPresent # {} THEN FirstOg
    ELSE IF Present(MetaDescription) THEN "All about cats."
    ELSE IF Present(TwitterDescription) THEN "Short"
    ELSE ""

\* the document is an og:description element and a <title> element
OnlyOgAndTitle(d) ==
    \/ html = OgDescription(d) \o "<title>Test Page</title>"
    \/ html = "<title>Test Page</title>" \o OgDescription(d)

\* C22 as stated: the description used is the first non-empty value in the
\* order og:description, meta description, twitter:description; when
\* og:description and meta description are both present the og:description
\* value is the one that appears in the summary; for a document of an
\* og:description D and a <title> the summary is D
C22_OgDescriptionFirst ==
    pc = "returned" =>
        /\ locals.resolved = FirstDescription
        /\ (OgPresent # {} /\ Present(MetaDescription)) =>
                (Contains(summary, FirstOg) /\ ~Contains(summary, "All about cats."))
        /\ \A d \in Descriptions : OnlyOgAndTitle(d) => summary = d

\* C22 as amended: the same, the last two parts for the calls in which the
\* final cleanup finds no marker in the assembled summary
C22_OgDescriptionFirstNoMarker ==
    pc = "returned" =>
        /\ locals.resolved = FirstDescription
        /\ (OgPresent # {} /\ Present(MetaDescription) /\ ~HoldsMarker(locals.joined)) =>
                (Contains(summary, FirstOg) /\ ~Contains(summary, "All about cats."))
        /\ \A d \in Descriptions : (OnlyOgAndTitle(d) /\ ~HoldsMarker(d)) => summary = d

\* the meta description stands before the og:description in the document and
\* the summary is the og:description
C22_Witness ==
    /\ pc = "returned"
    /\ html = MetaDescription \o OgDescription("A great article about testing.")
    /\ summary = "A great article about testing."
-----------------------------------------------------------------------------
(* Claims about the order of the fragments of the summary *)

\* the five fragments of the claim, "" for one that is empty
SiteFragment ==
    IF locals.siteName # "" /\ locals.siteName # locals.title
    THEN "From " \o locals.siteName \o "."
    ELSE ""

TypeFragment == IF locals.contentType = "video.other" THEN "Video.Other." ELSE ""

\* the description truncated to 400 characters plus "..." when longer
DescriptionFragment ==
    IF Len(locals.resolved) > 400 THEN SubSeq(locals.resolved, 1, 400) \o "..." ELSE locals.resolved

AuthorFragment == IF locals.author # "" THEN "By " \o locals.author \o "." ELSE ""

DateFragment ==
    IF locals.publishDate = "2024-02-29T10:00:00Z" THEN "Published February 29, 2024." ELSE ""

NotEmpty(s) == s # ""

\* the non-empty ones, in the order of the claim
OrderedFragments ==
    SelectSeq(<<SiteFragment, TypeFragment, DescriptionFragment, AuthorFragment, DateFragment>>,
              NotEmpty)

\* what the switch on the url appended
PlatformFragments == SubSeq(locals.parts, Len(locals.built) + 1, Len(locals.parts))

\* C23: when the safety net does not fire, the summary is the space-joined
\* sequence of the non-empty fragments "From {siteName}.", the title-cased
\* content type, the description (truncated to 400 characters plus "..." when
\* longer), "By {author}.", "Published {Month Day, Year}.", in this order and
\* each once (followed by the platform fragment when one was appended)
C23_FragmentOrder ==
    (/\ pc = "returned"
     /\ ~HoldsMarker(locals.joined)
     /\ locals.firstPara = ""
     /\ OrderedFragments # <<>>)
        => summary = Join(OrderedFragments \o PlatformFragments, " ")
-----------------------------------------------------------------------------
(* Claims about the paragraph that stands in for the description *)

\* the fragments with the paragraph in the slot of the description
FragmentsWithParagraph ==
    SelectSeq(<<SiteFragment, TypeFragment, locals.firstPara, AuthorFragment, DateFragment>>,
              NotEmpty)

\* C24: when the description is empty and extractFirstParagraph gives a
\* paragraph, the paragraph takes the slot of the description: after the
\* site name and the content type, before "By {author}." and "Published ..."
C24_ParagraphInSlot ==
    (/\ pc = "returned"
     /\ locals.resolved = ""
     /\ locals.firstPara # ""
     /\ ~HoldsMarker(locals.joined))
        => summary = Join(FragmentsWithParagraph \o PlatformFragments, " ")
-----------------------------------------------------------------------------
(* Claims about the site name in the summary *)

\* C25: the summary holds the fragment "From {siteName}." only if siteName is
\* not empty and differs from the resolved title, on the normal path and on
\* the path of the safety net alike
C25_SiteNameNotTitle ==
    pc = "returned" =>
        \A s \in SiteNames :
            Contains(summary, "From " \o s \o ".") =>
                (locals.siteName = s /\ locals.siteName # locals.title)
-----------------------------------------------------------------------------
(* Claims about the platform fragment *)

\* the url names YouTube, Instagram, LinkedIn, Twitter/X or GitHub
KnownPlatform(u) ==
    \E host \in {"youtube.com", "youtu.be", "instagram.com", "linkedin.com", "twitter.com",
                 "x.com", "github.com"} : Contains(ToLower(u), host)

\* C26: when the composition produced fewer than 2 fragments, of whatever
\* kind, and the url names a known platform, exactly one platform fragment is
\* appended; when it produced 2 or more, none is
C26_PlatformWhenFewerThanTwo ==
    pc = "returned" =>
        /\ (Len(locals.built) < 2 /\ KnownPlatform(url)) => Len(locals.parts) = Len(locals.built) + 1
        /\ Len(locals.built) >= 2 => locals.parts = locals.built
-----------------------------------------------------------------------------
(* Claims about the boilerplate containers *)

\* the words that the bodies hold inside nav, footer, header, aside or menu
\* elements only
BoilerplateText(body) ==
    IF body = "<nav>menu menu</nav><p>" \o Sentence \o "</p>" THEN {"menu"}
    ELSE IF body = NestedNavPage THEN {"home", "sub", "birds"}
    ELSE IF body = NavInFooterPage THEN {"legal", "links", "terms"}
    ELSE {}

\* C27: when the whole page arrived, no text that stands inside a closed nav,
\* footer, header, aside or menu element shows in the text extractText
\* returns, also when such containers are nested
C27_BoilerplateRemoved ==
    (Responded /\ html = resp.body) =>
        \A h \in BoilerplateText(html) : ~Contains(text, h)
-----------------------------------------------------------------------------
(* Claims about extractFirstParagraph *)

\* the documents of at most MaxFragments pieces
ParagraphDocuments == UNION {[1..n -> ParagraphPieces] : n \in 0..MaxFragments}

RECURSIVE RenderPieces(_, _)
RenderPieces(d, i) == IF i > Len(d) THEN "" ELSE RenderPiece(d[i]) \o RenderPieces(d, i + 1)

RECURSIVE AllParagraphs(_, _)
\* the <p> elements of the pieces of d from the i-th on
AllParagraphs(d, i) == IF i > Len(d) THEN <<>> ELSE d[i].paras \o AllParagraphs(d, i + 1)

\* the <p> elements the search looks at: those of the first <article> element
\* when there is one, all of them otherwise
Searched(d) ==
    IF \E i \in 1..Len(d) : d[i].article
    THEN d[CHOOSE i \in 1..Len(d) : d[i].article /\ \A j \in 1..(i - 1) : ~d[j].article].paras
    ELSE AllParagraphs(d, 1)

\* a <p> element matches when its text has 100 characters or more
IsCandidate(t) == t # TinyText

\* a candidate is accepted when its text holds no "{", "function" or "var "
\* and has 50 bytes or more once trimmed
IsAccepted(t) == t \in {GoodText, LongParagraph, EntityText}

\* the value returned for an accepted candidate
ReturnedFor(t) ==
    IF t = LongParagraph THEN SubSeq(LongParagraph, 1, 300) \o "..."
    ELSE IF t = EntityText THEN "Cats & dogs. " \o Sentence
    ELSE t

\* the first accepted candidate among the first five, "" when there is none
FirstAccepted(cands) ==
    LET five == SubSeq(cands, 1, IF Len(cands) < 5 THEN Len(cands) ELSE 5)
        accepted == {j \in 1..Len(five) : IsAccepted(five[j])}
    IN  IF accepted = {} THEN ""
        ELSE ReturnedFor(five[CHOOSE j \in accepted : \A k \in accepted : j <= k])

\* the documents as markup, each with the value the claim gives it
ExpectedParagraphs ==
    {<<RenderPieces(d, 1), FirstAccepted(SelectSeq(Searched(d), IsCandidate))>> :
        d \in ParagraphDocuments}

\* C28: extractFirstParagraph returns the empty string or the first accepted
\* candidate among the first 5 matching <p> elements, of the first <article>
\* region when there is one; the result has at most 303 characters and holds
\* none of "{", "function", "var "
C28_FirstAccepted ==
    pc = "returned" =>
        /\ Len(paragraph) <= 303
        /\ ~Contains(paragraph, "{") /\ ~Contains(paragraph, "function") /\ ~Contains(paragraph, "var ")
        /\ \A e \in ExpectedParagraphs : e[1] = html => paragraph = e[2]

\* the <article> region holds no acceptable paragraph, one stands before it,
\* and the empty string was returned
C28_Witness ==
    /\ pc = "returned"
    /\ html = "<p>" \o GoodText \o "</p><article><p>" \o VarText \o "</p></article>"
    /\ paragraph = ""
-----------------------------------------------------------------------------
(* Claims about HandleAnalyzeBookmark *)

\* the row of bookmark i before the request
OldRow(i) ==
    [url |-> BookmarkUrl(i), summary |-> Text("An old summary."), keywords |-> Text("[\"old\"]")]

\* the keywords of the pages, serialized
Serialized(k) ==
    IF k.nil THEN "null"
    ELSE IF k.elems = <<>> THEN "[]"
    ELSE IF k.elems = <<"cats", "dogs">> THEN "[\"cats\",\"dogs\"]"
    ELSE "?"

\* C29: the row is written only after a successful analysis.  For an id that
\* does not exist the reply is 404 and nothing is fetched or written; when
\* analyzeURL returns an error the reply is 500 and the row keeps its summary
\* and keywords; on success the summary and the serialized keywords written
\* are those of the one analysis that is returned to the caller
C29_WrittenAfterAnalysis ==
    /\ (handler.pc # "idle" /\ handler.bookmark = NoRow) =>
            (handler.pc = "done" /\ handler.status = 404)
    /\ handler.status = 404 =>
            (handler.bookmark = NoRow /\ handler.fetches = 0 /\ handler.writes = 0)
    /\ handler.result.err # "" =>
            /\ handler.status = 500
            /\ handler.writes = 0
    /\ handler.writes = 0 => \A i \in DOMAIN store : store[i] = OldRow(i)
    /\ handler.writes > 0 =>
            /\ handler.status = 200
            /\ handler.writes = 1 /\ handler.fetches = 1
            /\ ~handler.result.analysis.nil /\ handler.result.err = ""
            /\ handler.updated.summary = Text(handler.result.analysis.Summary)
            /\ handler.updated.keywords = Text(Serialized(handler.result.analysis.Keywords))
            /\ handler.keywords = handler.result.analysis.Keywords
            /\ \A i \in DOMAIN store :
                  store[i] = IF i = handler.id THEN handler.updated ELSE OldRow(i)
    /\ handler.status = 200 => handler.writes = 1

\* the analysis of bookmark 1 found the keywords cats and dogs, which were
\* written to its row and returned
C29_Witness ==
    /\ handler.status = 200
    /\ handler.id = 1
    /\ 1 \in DOMAIN store
    /\ store[1].keywords = Text("[\"cats\",\"dogs\"]")
    /\ store[1].summary = Text(NoDescription)
    /\ handler.keywords = Slice(<<"cats", "dogs">>)

\* C30: the Keywords of an analysis are a list, never nil: a text in which no
\* token reaches count 2 gives the empty list, as a text the script-leak
\* guard rejects does, so that the keywords in the reply and in the row are
\* serialized as "[]" and never as "null"
C30_NeverNull ==
    handler.pc \in {"save", "done"} /\ handler.result.err = "" /\ handler.status # 404 =>
        /\ ~handler.result.analysis.Keywords.nil
        /\ handler.keywordsJSON # "null"
        /\ \A i \in DOMAIN store : store[i].keywords # Text("null")
=============================================================================
